---- MODULE Spec2Model ----
(***************************************************************************)
(* A model of the langstream pipeline engine: Stream / SingleOutputStream  *)
(* combinators (core/stream.py) and the async-generator helpers            *)
(* (utils/async_generator.py).                                             *)
(*                                                                         *)
(* Every async generator of the code is a frame with a program counter.    *)
(* Control is handed between frames exactly as `async for` / `yield` hand  *)
(* it over: a frame pulls the frame below it, and yields, ends or raises   *)
(* to the frame above it.  Level 0 is the base Stream, levels 1..n are the *)
(* combinators applied to it, level n+1 is the consumer.                   *)
(*                                                                         *)
(* Payloads are strings.  f(v) is written "f(v)", a list of payloads       *)
(* [a, b] is written "[a,b]", so that every conversion is visible in the   *)
(* data it produces.                                                       *)
(***************************************************************************)
EXTENDS Integers, Sequences, FiniteSets, TLC

VARIABLES
    ops,        \* the combinators applied to the base Stream, innermost first
    params,     \* the behaviour of the user functions f, g, h
    srcRaw,     \* what the base Stream's _call yields (raw values / StreamOutputs)
    srcFail,    \* "none", "call" (_call raises), "stream" (raises after srcRaw)
    srcPos,     \* how many items of srcRaw have been produced
    frames,     \* one generator frame per combinator
    ctl,        \* the level that is running
    msg,        \* what is handed over: a pull, an item, the end, an exception
    out,        \* the StreamOutputs the consumer received, in order
    outStatus,  \* "running", "done" (StopAsyncIteration), "failed"
    outErr,     \* the exception the consumer received
    calls,      \* log of the invocations of f, p, g, h
    sent,       \* per level, the StreamOutputs it has yielded so far
    status,     \* per level, "running", "done" or "failed"
    genItems,   \* what each async generator carried as a payload yields
    genFail,    \* per such generator, whether it raises after its items
    gath,       \* the tasks of asyncio.gather inside SingleOutputStream.gather
    \* -- merge(async_generator_a, async_generator_b) under the asyncio loop --
    mIn,        \* per drain task, the items its input yields
    mFail,      \* per drain task, whether its input raises after its items
    mErr,       \* the exception merged() raised to the consumer, or ""
    mPos,       \* per drain task, how many items its input has yielded
    pc,         \* per task ("a", "b": the drain tasks; "main": the consumer
                \* running merged()), where it stands
    item,       \* per drain task, the item it is putting
    queue,      \* the asyncio.Queue(1): its items
    getters,    \* tasks waiting in queue.get(), in order
    putters,    \* tasks waiting in queue.put(), in order
    ready,      \* the loop's ready queue: tasks to be resumed, in order
    cur,        \* the task that is running, or "none"
    ext,        \* tasks suspended on something outside merge (a sleep, I/O)
    run_count,  \* the nonlocal run_count
    cancelling, \* the nonlocal cancelling
    mOut,       \* the items the consumer received from merged(), in order
    \* -- Stream.pipe: tee(self(input), n=2, lock=asyncio.Lock()) --
    buffer,     \* per tee peer, the items it has still to yield
    locked,     \* the asyncio.Lock: whether it is held
    lockWaiters, \* tasks waiting in lock.acquire(), in order
    phiIn       \* the values the piped function received, in order

teeVars == <<buffer, locked, lockWaiters, phiIn>>

seqVars == <<ops, params, srcRaw, srcFail, srcPos, frames, ctl, msg, out,
             outStatus, outErr, calls, sent, status, genItems, genFail, gath,
             teeVars>>

mergeVars == <<mIn, mFail, mErr, mPos, pc, item, queue, getters, putters,
               ready, cur, ext, run_count, cancelling, mOut>>

vars == <<seqVars, mergeVars>>

-----------------------------------------------------------------------------
(* Bounds *)

MaxItems == 2

MaxInner == 2

MaxMerge == 2

-----------------------------------------------------------------------------
(* Values *)

None == <<>>
Some(x) == <<x>>

Values == {"a", "b"}

Raw(v) == [isOut |-> FALSE, stream |-> "", data |-> v, final |-> FALSE]

StreamOutput(s, d, f) == [isOut |-> TRUE, stream |-> s, data |-> d, final |-> f]

NoItem == Raw("")

\* a join that puts the separator after every item
RECURSIVE JoinStrTrailing(_, _)
JoinStrTrailing(s, sep) ==
    IF s = <<>> THEN "" ELSE s[1] \o sep \o JoinStrTrailing(Tail(s), sep)

RECURSIVE JoinStr(_, _)
JoinStr(s, sep) ==
    IF s = <<>> THEN ""
    ELSE IF Len(s) = 1 THEN s[1]
    ELSE s[1] \o sep \o JoinStr(Tail(s), sep)

\* the printed form of a Python list of payloads
ListStr(s) == "[" \o JoinStr(s, ",") \o "]"

BSeq(S, n) == UNION {[1..k -> S] : k \in 0..n}

-----------------------------------------------------------------------------
(* Stream._output_wrap and Stream._reyield *)

\* a wrap that marks every nested StreamOutput final
output_wrapForceFinal(selfName, value, final, name) ==
    IF value.isOut
    THEN StreamOutput(value.stream, value.data, TRUE)
    ELSE StreamOutput(IF name = None THEN selfName ELSE name[1], value.data,
                      IF final # None THEN final[1] ELSE TRUE)

\* a wrap that puts the wrapping Stream's name on a nested StreamOutput
output_wrapRelabel(selfName, value, final, name) ==
    StreamOutput(IF name = None THEN selfName ELSE name[1], value.data,
                 IF final # None THEN final[1]
                 ELSE IF value.isOut THEN value.final ELSE TRUE)

\* a wrap that ignores the final flag of a nested StreamOutput
output_wrapNestedNonFinal(selfName, value, final, name) ==
    IF value.isOut
    THEN StreamOutput(value.stream, value.data,
                      IF final # None THEN final[1] ELSE FALSE)
    ELSE StreamOutput(IF name = None THEN selfName ELSE name[1], value.data,
                      IF final # None THEN final[1] ELSE TRUE)

output_wrap(selfName, value, final, name) ==
    IF value.isOut
    THEN StreamOutput(value.stream, value.data,
                      IF final # None THEN final[1] ELSE value.final)
    ELSE StreamOutput(IF name = None THEN selfName ELSE name[1], value.data,
                      IF final # None THEN final[1] ELSE TRUE)

\* a _reyield that forgets `final=False`
reyieldKeepFinal(selfName, values, u) ==
    [values |-> IF u.final THEN Append(values, u.data) ELSE values,
     out    |-> StreamOutput(u.stream, u.data, u.final)]

\* a _reyield that forgets `if u.final`
reyieldAll(selfName, values, u) ==
    [values |-> Append(values, u.data),
     out    |-> StreamOutput(u.stream, u.data, FALSE)]

reyield(selfName, values, u) ==
    [values |-> IF u.final THEN Append(values, u.data) ELSE values,
     out    |-> output_wrap(selfName, u, Some(FALSE), None)]

-----------------------------------------------------------------------------
(* The user functions *)

\* fn of map: raises on the payload params.fBad, if any
F(v) == "f(" \o v \o ")"

\* fn of filter
P(v) == v = "a"

\* next of and_then: a plain value, an async generator of values, or another
\* Stream (whose outputs are StreamOutputs); "raise" raises when called
G(kind, iter_u) ==
    CASE kind = "value" -> <<Raw("g(" \o ListStr(iter_u) \o ")")>>
      [] kind = "gen"   -> <<Raw("g1(" \o ListStr(iter_u) \o ")"),
                             Raw("g2(" \o ListStr(iter_u) \o ")")>>
      [] kind = "stage" -> <<StreamOutput("GInner", "gi(" \o ListStr(iter_u) \o ")", FALSE),
                             StreamOutput("G", "g(" \o ListStr(iter_u) \o ")", TRUE)>>
      [] OTHER          -> <<>>

\* fn of pipe: an async generator that yields one value per value received
Phi(v) == "phi(" \o v \o ")"

\* what fn of pipe yields for the sequence of values it is given
PhiGen(values) == [i \in 1..Len(values) |-> Raw(Phi(values[i]))]

\* fn of pipe when it is another Stream, called G: every value it receives
\* comes out as a final StreamOutput of G
PhiStage(values) == [i \in 1..Len(values) |-> StreamOutput("G", Phi(values[i]), TRUE)]

\* handler of on_error: a plain value or an async generator of values
H(kind, e) ==
    CASE kind = "value" -> <<Raw("h(" \o e \o ")")>>
      [] kind = "gen"   -> <<Raw("h1(" \o e \o ")"), Raw("h2(" \o e \o ")")>>
      [] OTHER          -> <<>>

\* the exception a handler of kind "raise" raises when it is called
HandlerError == "errH"

-----------------------------------------------------------------------------
(* Names *)

BaseName == "S"

\* the method behind an operation; the methods of SingleOutputStream carry
\* an "s" in front here
MethodName(op) ==
    CASE op = "smap"      -> "map"
      [] op = "sfilter"   -> "filter"
      [] op = "son_error" -> "on_error"
      [] op = "scollect"  -> "collect"
      [] op = "sand_then" -> "and_then"
      [] op = "spipe"     -> "pipe"
      [] OTHER            -> op

\* the name debug gives the Stream it returns: `next` there is the builtin,
\* which has no name
DebugName == "@debug"

\* a next_name that never adopts the name of the Stream given to and_then
NextNameSuffixOnly(op, selfName, gKind) == selfName \o "@" \o MethodName(op)

\* next_name of a combinator applied to the Stream called selfName
NextName(op, selfName, gKind) ==
    IF op = "debug" THEN DebugName
    ELSE IF op \in {"and_then", "sand_then"} /\ gKind = "stage" THEN "G"
    ELSE selfName \o "@" \o MethodName(op)

RECURSIVE NameAt(_, _, _)
NameAt(os, l, gKind) ==
    IF l = 0 THEN BaseName
    ELSE NextName(os[l], NameAt(os, l - 1, gKind), gKind)

-----------------------------------------------------------------------------
(* Handing control over *)

Top == Len(ops) + 1

PullBelow(l) ==
    /\ ctl' = l - 1
    /\ msg' = [kind |-> "pull", em |-> NoItem, err |-> ""]
    /\ UNCHANGED <<sent, status>>

YieldUp(l, em) ==
    /\ ctl' = l + 1
    /\ msg' = [kind |-> "item", em |-> em, err |-> ""]
    /\ sent' = [sent EXCEPT ![l] = Append(@, em)]
    /\ UNCHANGED status

EndUp(l) ==
    /\ ctl' = l + 1
    /\ msg' = [kind |-> "end", em |-> NoItem, err |-> ""]
    /\ status' = [status EXCEPT ![l] = "done"]
    /\ UNCHANGED sent

RaiseUp(l, e) ==
    /\ ctl' = l + 1
    /\ msg' = [kind |-> "raise", em |-> NoItem, err |-> e]
    /\ status' = [status EXCEPT ![l] = "failed"]
    /\ UNCHANGED sent

SetFrame(l, f) == frames' = [frames EXCEPT ![l] = f]

IsOp(l, op) ==
    /\ l \in 1..Len(ops)
    /\ ctl = l
    /\ frames[l].op = op

cfgVars == <<ops, params, srcRaw, srcFail, genItems, genFail, mergeVars,
            teeVars>>
conVars == <<out, outStatus, outErr>>

-----------------------------------------------------------------------------
(* Stream.__call__ of the base Stream: _wrap over what _call returns *)

SourceNext ==
    /\ ctl = 0
    /\ msg.kind = "pull"
    /\ IF srcFail = "call"
       THEN RaiseUp(0, "errS") /\ UNCHANGED srcPos
       ELSE IF srcPos < Len(srcRaw)
       THEN /\ YieldUp(0, output_wrap(BaseName, srcRaw[srcPos + 1], None, None))
            /\ srcPos' = srcPos + 1
       ELSE IF srcFail = "stream"
       THEN RaiseUp(0, "errS") /\ UNCHANGED srcPos
       ELSE EndUp(0) /\ UNCHANGED srcPos
    /\ UNCHANGED <<cfgVars, frames, conVars, calls, gath>>

-----------------------------------------------------------------------------
(* Generator frames *)

NewFrame(op, selfName, name) ==
    [op |-> op, self |-> selfName, name |-> name, pc |-> "loop",
     values |-> <<>>, prev_len |-> 0, iter_u |-> <<>>, tail |-> <<>>,
     err |-> "", final_value |-> None,
     last_stream |-> "", last_output |-> "", printed |-> <<>>]

Last(s) == s[Len(s)]

\* a test that forgets prev_len_values
HasNewValueStale(values, prev_len) == Len(values) > 0

\* `if len(values) > prev_len_values`
HasNewValue(values, prev_len) == Len(values) > prev_len

\* yield the outputs of a successor (next / handler) one by one, wrapped by
\* self._wrap(..., name=next_name); the generator ends after the last one
YieldTail(l, fr, tail) ==
    IF tail = <<>>
    THEN EndUp(l) /\ SetFrame(l, [fr EXCEPT !.pc = "done", !.tail = <<>>])
    ELSE /\ YieldUp(l, output_wrap(fr.self, Head(tail), None, Some(fr.name)))
         /\ SetFrame(l, [fr EXCEPT !.pc = "tail", !.tail = Tail(tail)])

-----------------------------------------------------------------------------
(* Stream.map *)

Map(l) ==
    /\ IsOp(l, "map")
    /\ LET fr == frames[l] IN
       CASE msg.kind = "pull" /\ fr.pc = "yielded" /\ HasNewValue(fr.values, fr.prev_len) ->
              \* resumed after `yield to_reyield`: there is a new value
              /\ calls' = [calls EXCEPT !.f = Append(@, Last(fr.values))]
              /\ IF Last(fr.values) = params.fBad
                 THEN /\ RaiseUp(l, "errF")
                      /\ SetFrame(l, [fr EXCEPT !.pc = "done",
                                                !.prev_len = Len(fr.values)])
                 ELSE /\ YieldUp(l, output_wrap(fr.self, Raw(F(Last(fr.values))),
                                                None, Some(fr.name)))
                      /\ SetFrame(l, [fr EXCEPT !.pc = "mapped",
                                                !.prev_len = Len(fr.values)])
         [] msg.kind = "pull" /\ ~(fr.pc = "yielded" /\ HasNewValue(fr.values, fr.prev_len)) ->
              \* next iteration of `async for ... in self._reyield(self(input))`
              /\ fr.pc \in {"loop", "yielded", "mapped"}
              /\ PullBelow(l)
              /\ SetFrame(l, [fr EXCEPT !.pc = "loop"])
              /\ UNCHANGED calls
         [] msg.kind = "item" ->
              LET r == reyield(fr.self, fr.values, msg.em) IN
              /\ YieldUp(l, r.out)
              /\ SetFrame(l, [fr EXCEPT !.pc = "yielded", !.values = r.values])
              /\ UNCHANGED calls
         [] msg.kind = "end" ->
              /\ EndUp(l)
              /\ SetFrame(l, [fr EXCEPT !.pc = "done"])
              /\ UNCHANGED calls
         [] msg.kind = "raise" ->
              /\ RaiseUp(l, msg.err)
              /\ SetFrame(l, [fr EXCEPT !.pc = "done"])
              /\ UNCHANGED calls
    /\ UNCHANGED <<cfgVars, srcPos, conVars, gath>>

-----------------------------------------------------------------------------
(* debug(stream): prints what passes and yields it on *)

\* the payloads that are exceptions
Exceptions == {"errS", "errF", "errG", HandlerError}

\* what the prints of one iteration write: the header when the stream
\* changes, then the data
DebugPrints(last_stream, output) ==
    (IF output.stream # last_stream THEN <<"> " \o output.stream>> ELSE <<>>)
      \o <<IF output.data \in Exceptions THEN "Exception: " \o output.data
                                           ELSE output.data>>

\* a debug whose `continue` comes before the yield
DebugRepeatedDropped(l, fr, output) ==
    /\ PullBelow(l)
    /\ SetFrame(l, [fr EXCEPT !.pc = "loop"])

\* `if output.stream != last_stream and last_output == output.data:
\*      yield output; continue`
DebugRepeated(l, fr, output) ==
    /\ YieldUp(l, output_wrap(fr.name, output, None, None))
    /\ SetFrame(l, [fr EXCEPT !.pc = "yielded"])

Debug(l) ==
    /\ IsOp(l, "debug")
    /\ LET fr == frames[l] IN
       CASE msg.kind = "pull" ->
              /\ fr.pc \in {"loop", "yielded"}
              /\ PullBelow(l)
              /\ SetFrame(l, [fr EXCEPT !.pc = "loop"])
         [] msg.kind = "item" ->
              LET output == msg.em IN
              IF output.stream # fr.last_stream /\ fr.last_output = output.data
              THEN DebugRepeated(l, fr, output)
              ELSE /\ YieldUp(l, output_wrap(fr.name, output, None, None))
                   /\ SetFrame(l, [fr EXCEPT
                         !.pc = "yielded",
                         !.printed = @ \o DebugPrints(fr.last_stream, output),
                         !.last_stream = output.stream,
                         !.last_output = output.data])
         [] msg.kind = "end" ->
              /\ EndUp(l)
              /\ SetFrame(l, [fr EXCEPT !.pc = "done"])
         [] msg.kind = "raise" ->
              /\ RaiseUp(l, msg.err)
              /\ SetFrame(l, [fr EXCEPT !.pc = "done"])
    /\ UNCHANGED <<cfgVars, srcPos, conVars, calls, gath>>

-----------------------------------------------------------------------------
(* Stream.filter *)

Filter(l) ==
    /\ IsOp(l, "filter")
    /\ LET fr == frames[l] IN
       CASE msg.kind = "pull" /\ fr.pc = "yielded" /\ HasNewValue(fr.values, fr.prev_len) ->
              /\ calls' = [calls EXCEPT !.p = Append(@, Last(fr.values))]
              /\ IF P(Last(fr.values))
                 THEN /\ YieldUp(l, output_wrap(fr.self, Raw(Last(fr.values)),
                                                None, Some(fr.name)))
                      /\ SetFrame(l, [fr EXCEPT !.pc = "mapped",
                                                !.prev_len = Len(fr.values)])
                 ELSE /\ PullBelow(l)
                      /\ SetFrame(l, [fr EXCEPT !.pc = "loop",
                                                !.prev_len = Len(fr.values)])
         [] msg.kind = "pull" /\ ~(fr.pc = "yielded" /\ HasNewValue(fr.values, fr.prev_len)) ->
              /\ fr.pc \in {"loop", "yielded", "mapped"}
              /\ PullBelow(l)
              /\ SetFrame(l, [fr EXCEPT !.pc = "loop"])
              /\ UNCHANGED calls
         [] msg.kind = "item" ->
              LET r == reyield(fr.self, fr.values, msg.em) IN
              /\ YieldUp(l, r.out)
              /\ SetFrame(l, [fr EXCEPT !.pc = "yielded", !.values = r.values])
              /\ UNCHANGED calls
         [] msg.kind = "end" ->
              /\ EndUp(l)
              /\ SetFrame(l, [fr EXCEPT !.pc = "done"])
              /\ UNCHANGED calls
         [] msg.kind = "raise" ->
              /\ RaiseUp(l, msg.err)
              /\ SetFrame(l, [fr EXCEPT !.pc = "done"])
              /\ UNCHANGED calls
    /\ UNCHANGED <<cfgVars, srcPos, conVars, gath>>

-----------------------------------------------------------------------------
(* A failure of the stream being drained *)

\* a drain that swallows the failure and emits what it has collected
DrainFailsPartial(l, fr, e) ==
    /\ YieldUp(l, output_wrap(fr.self, Raw(ListStr(fr.values)), None, Some(fr.name)))
    /\ SetFrame(l, [fr EXCEPT !.pc = "final"])

\* the exception raised inside `async for ... in self._reyield(self(input))`
\* is not caught: it leaves the generator
DrainFails(l, fr, e) ==
    /\ RaiseUp(l, e)
    /\ SetFrame(l, [fr EXCEPT !.pc = "done"])

-----------------------------------------------------------------------------
(* Stream.and_then *)

\* an and_then whose call of `next` sits inside the protected region of the
\* on_error below it
NextRaisesHandled(l, fr, e) ==
    /\ calls' = [calls EXCEPT !.g = Append(@, fr.iter_u), !.h = Append(@, e)]
    /\ YieldUp(l, StreamOutput(fr.self, "h(" \o e \o ")", TRUE))
    /\ SetFrame(l, [fr EXCEPT !.pc = "tail", !.tail = <<>>])

\* `next(iter_u)` raises: the exception leaves the and_then generator
NextRaises(l, fr, e) ==
    /\ calls' = [calls EXCEPT !.g = Append(@, fr.iter_u)]
    /\ RaiseUp(l, e)
    /\ SetFrame(l, [fr EXCEPT !.pc = "done"])

AndThen(l) ==
    /\ IsOp(l, "and_then")
    /\ LET fr == frames[l] IN
       CASE msg.kind = "pull" /\ fr.pc = "loop" ->
              /\ PullBelow(l)
              /\ UNCHANGED <<frames, calls>>
         [] msg.kind = "pull" /\ fr.pc = "yielded" ->
              \* `iter_u = values`, then the next iteration
              /\ PullBelow(l)
              /\ SetFrame(l, [fr EXCEPT !.pc = "loop", !.iter_u = fr.values])
              /\ UNCHANGED calls
         [] msg.kind = "pull" /\ fr.pc = "tail" ->
              /\ YieldTail(l, fr, fr.tail)
              /\ UNCHANGED calls
         [] msg.kind = "item" ->
              LET r == reyield(fr.self, fr.values, msg.em) IN
              /\ YieldUp(l, r.out)
              /\ SetFrame(l, [fr EXCEPT !.pc = "yielded", !.values = r.values])
              /\ UNCHANGED calls
         [] msg.kind = "end" ->
              \* the previous stream is drained: `next(iter_u)`
              IF params.gKind = "raise"
              THEN NextRaises(l, fr, "errG")
              ELSE /\ calls' = [calls EXCEPT !.g = Append(@, fr.iter_u)]
                   /\ YieldTail(l, fr, G(params.gKind, fr.iter_u))
         [] msg.kind = "raise" ->
              /\ DrainFails(l, fr, msg.err)
              /\ UNCHANGED calls
    /\ UNCHANGED <<cfgVars, srcPos, conVars, gath>>

-----------------------------------------------------------------------------
(* Stream.collect *)

Collect(l) ==
    /\ IsOp(l, "collect")
    /\ LET fr == frames[l] IN
       CASE msg.kind = "pull" /\ fr.pc = "loop" ->
              /\ PullBelow(l)
              /\ UNCHANGED frames
         [] msg.kind = "pull" /\ fr.pc = "yielded" ->
              /\ PullBelow(l)
              /\ SetFrame(l, [fr EXCEPT !.pc = "loop", !.iter_u = fr.values])
         [] msg.kind = "pull" /\ fr.pc = "final" ->
              /\ EndUp(l)
              /\ SetFrame(l, [fr EXCEPT !.pc = "done"])
         [] msg.kind = "item" ->
              LET r == reyield(fr.self, fr.values, msg.em) IN
              /\ YieldUp(l, r.out)
              /\ SetFrame(l, [fr EXCEPT !.pc = "yielded", !.values = r.values])
         [] msg.kind = "end" ->
              \* `yield self._output_wrap(iter_u, name=next_name)`
              /\ YieldUp(l, output_wrap(fr.self, Raw(ListStr(fr.iter_u)),
                                        None, Some(fr.name)))
              /\ SetFrame(l, [fr EXCEPT !.pc = "final"])
         [] msg.kind = "raise" ->
              DrainFails(l, fr, msg.err)
    /\ UNCHANGED <<cfgVars, srcPos, conVars, calls, gath>>

-----------------------------------------------------------------------------
(* Stream.join *)

\* the separator given to join
Separator == "-"

Join(l) ==
    /\ IsOp(l, "join")
    /\ LET fr == frames[l] IN
       CASE msg.kind = "pull" /\ fr.pc = "loop" ->
              /\ PullBelow(l)
              /\ UNCHANGED frames
         [] msg.kind = "pull" /\ fr.pc = "yielded" ->
              /\ PullBelow(l)
              /\ SetFrame(l, [fr EXCEPT !.pc = "loop", !.iter_u = fr.values])
         [] msg.kind = "pull" /\ fr.pc = "final" ->
              /\ EndUp(l)
              /\ SetFrame(l, [fr EXCEPT !.pc = "done"])
         [] msg.kind = "item" ->
              LET r == reyield(fr.self, fr.values, msg.em) IN
              /\ YieldUp(l, r.out)
              /\ SetFrame(l, [fr EXCEPT !.pc = "yielded", !.values = r.values])
         [] msg.kind = "end" ->
              \* `output = separator.join(iter_u)`, yielded wrapped
              /\ YieldUp(l, output_wrap(fr.self, Raw(JoinStr(fr.iter_u, Separator)),
                                        None, Some(fr.name)))
              /\ SetFrame(l, [fr EXCEPT !.pc = "final"])
         [] msg.kind = "raise" ->
              DrainFails(l, fr, msg.err)
    /\ UNCHANGED <<cfgVars, srcPos, conVars, calls, gath>>

-----------------------------------------------------------------------------
(* Stream.on_error *)

\* an error marker that is part of the final output
ErrorTraceFinal(selfName, e) == output_wrap(selfName, Raw(e), None, None)

\* an on_error that re-yields like the other combinators: not final
ProtectedYieldNonFinal(selfName, output) ==
    output_wrap(selfName, output, Some(FALSE), None)

\* `async for output in self(input): yield output`
ProtectedYield(selfName, output) == output

\* an error marker under the name of the on_error stage
ErrorTraceRenamed(selfName, e) ==
    output_wrap(selfName \o "@on_error", Raw(e), Some(FALSE), None)

\* `self._output_wrap(e, final=False)`
ErrorTrace(selfName, e) == output_wrap(selfName, Raw(e), Some(FALSE), None)

\* an on_error that hands the exception of its handler to the handler again
HandlerRaisesRecovered(l, fr) ==
    /\ calls' = [calls EXCEPT !.h = @ \o <<fr.err, HandlerError>>]
    /\ YieldUp(l, StreamOutput(fr.name, "h(" \o HandlerError \o ")", TRUE))
    /\ SetFrame(l, [fr EXCEPT !.pc = "tail", !.tail = <<>>])

\* `handler(e)` raises inside the except block: nothing catches it, it
\* leaves the generator
HandlerRaises(l, fr) ==
    /\ calls' = [calls EXCEPT !.h = Append(@, fr.err)]
    /\ RaiseUp(l, HandlerError)
    /\ SetFrame(l, [fr EXCEPT !.pc = "done"])

\* an on_error that lets the failure pass when another on_error encloses it
CaughtByOutermost(l, fr, e) ==
    IF l < Len(ops) /\ ops[l + 1] = "on_error"
    THEN /\ RaiseUp(l, e)
         /\ SetFrame(l, [fr EXCEPT !.pc = "done"])
    ELSE /\ YieldUp(l, ErrorTrace(fr.self, e))
         /\ SetFrame(l, [fr EXCEPT !.pc = "caught", !.err = e])

\* `except Exception as e: yield self._output_wrap(e, final=False)`
Caught(l, fr, e) ==
    /\ YieldUp(l, ErrorTrace(fr.self, e))
    /\ SetFrame(l, [fr EXCEPT !.pc = "caught", !.err = e])

OnError(l) ==
    /\ IsOp(l, "on_error")
    /\ LET fr == frames[l] IN
       CASE msg.kind = "pull" /\ fr.pc \in {"loop", "yielded"} ->
              /\ PullBelow(l)
              /\ SetFrame(l, [fr EXCEPT !.pc = "loop"])
              /\ UNCHANGED calls
         [] msg.kind = "pull" /\ fr.pc = "caught" ->
              \* resumed after the yield of the exception: `handler(e)`; an
              \* exception of the handler leaves the generator
              IF params.hKind = "raise"
              THEN HandlerRaises(l, fr)
              ELSE /\ calls' = [calls EXCEPT !.h = Append(@, fr.err)]
                   /\ YieldTail(l, fr, H(params.hKind, fr.err))
         [] msg.kind = "pull" /\ fr.pc = "tail" ->
              /\ YieldTail(l, fr, fr.tail)
              /\ UNCHANGED calls
         [] msg.kind = "item" ->
              /\ YieldUp(l, ProtectedYield(fr.self, msg.em))
              /\ SetFrame(l, [fr EXCEPT !.pc = "yielded"])
              /\ UNCHANGED calls
         [] msg.kind = "end" ->
              /\ EndUp(l)
              /\ SetFrame(l, [fr EXCEPT !.pc = "done"])
              /\ UNCHANGED calls
         [] msg.kind = "raise" ->
              /\ Caught(l, fr, msg.err)
              /\ UNCHANGED calls
    /\ UNCHANGED <<cfgVars, srcPos, conVars, gath>>

-----------------------------------------------------------------------------
(* SingleOutputStream._reyield *)

\* a _reyield that keeps the first final it sees
reyield_singleKeepFirst(selfName, final_value, u) ==
    [value |-> IF u.final /\ final_value = None THEN Some(u.data) ELSE final_value,
     out   |-> output_wrap(selfName, u, Some(FALSE), None)]

reyield_single(selfName, final_value, u) ==
    [value |-> IF u.final THEN Some(u.data) ELSE final_value,
     out   |-> output_wrap(selfName, u, Some(FALSE), None)]

-----------------------------------------------------------------------------
(* SingleOutputStream.gather; Stream.gather is self.collect().gather() *)

GenNames == {"g1", "g2"}

\* the lists of distinct generators a Stream can have collected
GenLists == {l \in BSeq(GenNames, Cardinality(GenNames)) :
               \A i, j \in 1..Len(l) : i # j => l[i] # l[j]}

\* the list object behind the payload printed as s
ListOf(s) == CHOOSE l \in GenLists : ListStr(l) = s

NoGather == [list |-> <<>>, vs |-> <<>>, done |-> <<>>, order |-> <<>>, err |-> ""]

\* `[item async for item in generator]`, one coroutine per generator
StartGather(final_u) ==
    [list  |-> final_u,
     vs    |-> [i \in 1..Len(final_u) |-> <<>>],
     done  |-> [i \in 1..Len(final_u) |-> FALSE],
     order |-> <<>>,
     err   |-> ""]

\* a gather that hands the lists back in the order the coroutines finished
GatherResultsAsCompleted(g) == [k \in 1..Len(g.order) |-> g.vs[g.order[k]]]

\* `vss = await asyncio.gather(*(...))`: the results in argument order
GatherResults(g) == g.vs

\* the inner loop over one vs: the StreamOutputs are re-yielded non-final
RECURSIVE CleanYields(_, _)
CleanYields(selfName, vs) ==
    IF vs = <<>> THEN <<>>
    ELSE (IF Head(vs).isOut
          THEN <<output_wrap(selfName, Head(vs), Some(FALSE), None)>> ELSE <<>>)
         \o CleanYields(selfName, Tail(vs))

\* the inner loop over one vs: clean_vs
RECURSIVE CleanVs(_)
CleanVs(vs) ==
    IF vs = <<>> THEN <<>>
    ELSE (IF Head(vs).isOut
          THEN (IF Head(vs).final THEN <<Head(vs).data>> ELSE <<>>)
          ELSE <<Head(vs).data>>)
         \o CleanVs(Tail(vs))

RECURSIVE Flatten(_)
Flatten(ss) == IF ss = <<>> THEN <<>> ELSE Head(ss) \o Flatten(Tail(ss))

\* a gather that yields its final before it re-yields the inner outputs
AfterGatherFinalFirst(fr, vss) ==
    <<output_wrap(fr.self,
                  Raw(ListStr([i \in 1..Len(vss) |-> ListStr(CleanVs(vss[i]))])),
                  None, Some(fr.name))>>
      \o Flatten([i \in 1..Len(vss) |-> CleanYields(fr.self, vss[i])])

\* everything the generator yields after asyncio.gather returned
AfterGather(fr, vss) ==
    Flatten([i \in 1..Len(vss) |-> CleanYields(fr.self, vss[i])])
      \o <<output_wrap(fr.self,
                       Raw(ListStr([i \in 1..Len(vss) |-> ListStr(CleanVs(vss[i]))])),
                       None, Some(fr.name))>>

YieldReady(l, fr, ems) ==
    IF ems = <<>>
    THEN EndUp(l) /\ SetFrame(l, [fr EXCEPT !.pc = "done", !.tail = <<>>])
    ELSE /\ YieldUp(l, Head(ems))
         /\ SetFrame(l, [fr EXCEPT !.pc = "clean", !.tail = Tail(ems)])

AllDone(g) == \A i \in 1..Len(g.done) : g.done[i]

\* the exception of the generator h
GenError(h) == "err_" \o h

\* `await asyncio.gather(...)` raises: the exception leaves the generator;
\* asyncio.gather leaves its other tasks running
GatherRaises(l, fr) ==
    /\ RaiseUp(l, gath.err)
    /\ SetFrame(l, [fr EXCEPT !.pc = "done"])
    /\ UNCHANGED gath

Gather(l) ==
    /\ IsOp(l, "gather")
    /\ LET fr == frames[l] IN
       CASE msg.kind = "pull" /\ fr.pc = "loop" ->
              /\ PullBelow(l)
              /\ UNCHANGED <<frames, gath>>
         [] msg.kind = "pull" /\ fr.pc = "yielded" ->
              \* `final_u = value`, then the next iteration
              /\ PullBelow(l)
              /\ SetFrame(l, [fr EXCEPT !.pc = "loop", !.iter_u = fr.final_value])
              /\ UNCHANGED gath
         [] msg.kind = "pull" /\ fr.pc = "clean" ->
              /\ YieldReady(l, fr, fr.tail)
              /\ UNCHANGED gath
         [] msg.kind = "item" ->
              LET r == reyield_single(fr.self, fr.final_value, msg.em) IN
              /\ YieldUp(l, r.out)
              /\ SetFrame(l, [fr EXCEPT !.pc = "yielded", !.final_value = r.value])
              /\ UNCHANGED gath
         [] msg.kind = "end" /\ fr.pc = "loop" ->
              \* the previous stream is drained: start asyncio.gather and wait
              /\ gath' = StartGather(IF fr.iter_u = None THEN <<>>
                                     ELSE ListOf(fr.iter_u[1]))
              /\ SetFrame(l, [fr EXCEPT !.pc = "gathering"])
              /\ UNCHANGED <<ctl, msg, sent, status>>
         [] msg.kind = "end" /\ fr.pc = "gathering" ->
              IF gath.err # ""
              THEN \* asyncio.gather raised the first exception of its tasks
                   /\ GatherRaises(l, fr)
              ELSE \* asyncio.gather returned
                   /\ AllDone(gath)
                   /\ YieldReady(l, fr, AfterGather(fr, GatherResults(gath)))
                   /\ UNCHANGED gath
         [] msg.kind = "raise" ->
              /\ DrainFails(l, fr, msg.err)
              /\ UNCHANGED gath
    /\ UNCHANGED <<cfgVars, srcPos, conVars, calls>>

\* one step of consume_async_generator for the i-th generator of the list
\* The tasks are created by asyncio.gather and run until they end, whatever
\* happens to the generator that awaited them.
ConsumeAsyncGenerator(i) ==
    /\ i \in 1..Len(gath.list)
    /\ ~gath.done[i]
    /\ LET h == gath.list[i]
           items == genItems[h] IN
       IF Len(gath.vs[i]) < Len(items)
       THEN gath' = [gath EXCEPT !.vs[i] = Append(@, items[Len(@) + 1])]
       ELSE IF genFail[h]
       THEN \* the task ends with the exception; the first one to do so
            \* sets the exception of the future asyncio.gather returned
            gath' = [gath EXCEPT !.done[i] = TRUE, !.order = Append(@, i),
                                 !.err = IF @ = "" THEN GenError(h) ELSE @]
       ELSE gath' = [gath EXCEPT !.done[i] = TRUE, !.order = Append(@, i)]
    /\ UNCHANGED <<cfgVars, srcPos, frames, ctl, msg, conVars, calls, sent, status>>

-----------------------------------------------------------------------------
(* SingleOutputStream.map, and_then and pipe: the previous stream is       *)
(* re-yielded to its end, then the successor gets unwrap(final_u)          *)

\* the payload printed for Python's None
NoneValue == "None"

\* an unwrap that hands the value over inside a list
unwrapAsList(final_u) == IF final_u = None THEN "[]" ELSE "[" \o final_u[1] \o "]"

\* unwrap is typing.cast: an absent final_u is handed over as None
unwrap(final_u) == IF final_u = None THEN NoneValue ELSE final_u[1]

\* next of SingleOutputStream.and_then, called with one value
GSingle(kind, v) ==
    CASE kind = "value" -> <<Raw("g(" \o v \o ")")>>
      [] kind = "gen"   -> <<Raw("g1(" \o v \o ")"), Raw("g2(" \o v \o ")")>>
      [] kind = "stage" -> <<StreamOutput("GInner", "gi(" \o v \o ")", FALSE),
                             StreamOutput("G", "g(" \o v \o ")", TRUE)>>
      [] kind = "phi"   -> PhiGen(<<v>>)
      [] OTHER          -> <<>>

\* an as_async_generator that yields its value twice
as_async_generatorTwice(v) == <<v, v>>

\* as_async_generator(value): the sequence that yields value and ends
as_async_generator(v) == <<v>>

\* `async for value, to_reyield in self._reyield(self(input))` with
\* `yield to_reyield` and `final_u = value`
SingleReyieldLoop(l, fr) ==
    CASE msg.kind = "pull" /\ fr.pc = "loop" ->
           /\ PullBelow(l)
           /\ UNCHANGED frames
      [] msg.kind = "pull" /\ fr.pc = "yielded" ->
           /\ PullBelow(l)
           /\ SetFrame(l, [fr EXCEPT !.pc = "loop", !.iter_u = fr.final_value])
      [] msg.kind = "item" ->
           LET r == reyield_single(fr.self, fr.final_value, msg.em) IN
           /\ YieldUp(l, r.out)
           /\ SetFrame(l, [fr EXCEPT !.pc = "yielded", !.final_value = r.value])

SingleLooping(fr) ==
    \/ msg.kind = "pull" /\ fr.pc \in {"loop", "yielded"}
    \/ msg.kind = "item"

SingleMap(l) ==
    /\ IsOp(l, "smap")
    /\ LET fr == frames[l] IN
       CASE SingleLooping(fr) ->
              /\ SingleReyieldLoop(l, fr)
              /\ UNCHANGED calls
         [] msg.kind = "end" ->
              \* `yield self._output_wrap(fn(unwrap(final_u)), name=next_name)`
              LET v == unwrap(fr.iter_u) IN
              /\ calls' = [calls EXCEPT !.f = Append(@, v)]
              /\ IF v = params.fBad
                 THEN /\ RaiseUp(l, "errF")
                      /\ SetFrame(l, [fr EXCEPT !.pc = "done"])
                 ELSE /\ YieldUp(l, output_wrap(fr.self, Raw(F(v)), None, Some(fr.name)))
                      /\ SetFrame(l, [fr EXCEPT !.pc = "final"])
         [] msg.kind = "pull" /\ fr.pc = "final" ->
              /\ EndUp(l)
              /\ SetFrame(l, [fr EXCEPT !.pc = "done"])
              /\ UNCHANGED calls
         [] msg.kind = "raise" ->
              /\ DrainFails(l, fr, msg.err)
              /\ UNCHANGED calls
    /\ UNCHANGED <<cfgVars, srcPos, conVars, gath>>

\* a filter that drops the final when fn rejects it, as Stream.filter does
SingleFilteredDropping(final_u) ==
    IF P(unwrap(final_u)) THEN <<Raw(unwrap(final_u))>> ELSE <<>>

\* `final_u if fn(unwrap(final_u)) else None`
SingleFiltered(final_u) ==
    <<Raw(IF P(unwrap(final_u)) THEN unwrap(final_u) ELSE NoneValue)>>

SingleFilter(l) ==
    /\ IsOp(l, "sfilter")
    /\ LET fr == frames[l] IN
       CASE SingleLooping(fr) ->
              /\ SingleReyieldLoop(l, fr)
              /\ UNCHANGED calls
         [] msg.kind = "end" ->
              \* `yield self._output_wrap(
              \*      final_u if fn(unwrap(final_u)) else None, name=next_name)`
              /\ calls' = [calls EXCEPT !.p = Append(@, unwrap(fr.iter_u))]
              /\ YieldTail(l, fr, SingleFiltered(fr.iter_u))
         [] msg.kind = "pull" /\ fr.pc = "tail" ->
              /\ YieldTail(l, fr, fr.tail)
              /\ UNCHANGED calls
         [] msg.kind = "raise" ->
              /\ DrainFails(l, fr, msg.err)
              /\ UNCHANGED calls
    /\ UNCHANGED <<cfgVars, srcPos, conVars, gath>>

\* SingleOutputStream.on_error: the outputs of self(input) are yielded as
\* they are; `except Exception as e` goes straight to
\* `self._wrap(handler(e), name=next_name)`
SingleOnError(l) ==
    /\ IsOp(l, "son_error")
    /\ LET fr == frames[l] IN
       CASE msg.kind = "pull" /\ fr.pc \in {"loop", "yielded"} ->
              /\ PullBelow(l)
              /\ SetFrame(l, [fr EXCEPT !.pc = "loop"])
              /\ UNCHANGED calls
         [] msg.kind = "pull" /\ fr.pc = "tail" ->
              /\ YieldTail(l, fr, fr.tail)
              /\ UNCHANGED calls
         [] msg.kind = "item" ->
              /\ YieldUp(l, ProtectedYield(fr.self, msg.em))
              /\ SetFrame(l, [fr EXCEPT !.pc = "yielded"])
              /\ UNCHANGED calls
         [] msg.kind = "end" ->
              /\ EndUp(l)
              /\ SetFrame(l, [fr EXCEPT !.pc = "done"])
              /\ UNCHANGED calls
         [] msg.kind = "raise" ->
              /\ calls' = [calls EXCEPT !.h = Append(@, msg.err)]
              /\ IF params.hKind = "raise"
                 THEN /\ RaiseUp(l, HandlerError)
                      /\ SetFrame(l, [fr EXCEPT !.pc = "done", !.err = msg.err])
                 ELSE YieldTail(l, [fr EXCEPT !.err = msg.err], H(params.hKind, msg.err))
    /\ UNCHANGED <<cfgVars, srcPos, conVars, gath>>

\* a collect that wraps what it was handed in a list once more
SingleCollectedNested(final_u, received) ==
    IF ~received THEN "[]" ELSE ListStr(<<unwrap(final_u)>>)

\* Stream.collect inherited by a SingleOutputStream: `iter_u = values` takes
\* what SingleOutputStream._reyield yields, the final value itself (or
\* None), and stays `[]` when nothing was received
SingleCollected(final_u, received) ==
    IF ~received THEN "[]" ELSE unwrap(final_u)

SingleCollect(l) ==
    /\ IsOp(l, "scollect")
    /\ LET fr == frames[l] IN
       CASE SingleLooping(fr) ->
              SingleReyieldLoop(l, fr)
         [] msg.kind = "end" ->
              \* `yield self._output_wrap(iter_u, name=next_name)`
              YieldTail(l, fr, <<Raw(SingleCollected(fr.iter_u, sent[l] # <<>>))>>)
         [] msg.kind = "pull" /\ fr.pc = "tail" ->
              YieldTail(l, fr, fr.tail)
         [] msg.kind = "raise" ->
              DrainFails(l, fr, msg.err)
    /\ UNCHANGED <<cfgVars, srcPos, conVars, calls, gath>>

SingleAndThen(l) ==
    /\ IsOp(l, "sand_then")
    /\ LET fr == frames[l] IN
       CASE SingleLooping(fr) ->
              /\ SingleReyieldLoop(l, fr)
              /\ UNCHANGED calls
         [] msg.kind = "end" ->
              \* `iter_v = self._wrap(next(unwrap(final_u)), name=next_name)`
              LET v == unwrap(fr.iter_u) IN
              IF params.gKind = "raise"
              THEN /\ calls' = [calls EXCEPT !.g = Append(@, v)]
                   /\ RaiseUp(l, "errG")
                   /\ SetFrame(l, [fr EXCEPT !.pc = "done"])
              ELSE /\ calls' = [calls EXCEPT
                                 !.g = Append(@, v),
                                 !.phi = IF params.gKind = "phi" THEN Append(@, v)
                                         ELSE @]
                   /\ YieldTail(l, fr, GSingle(params.gKind, v))
         [] msg.kind = "pull" /\ fr.pc = "tail" ->
              /\ YieldTail(l, fr, fr.tail)
              /\ UNCHANGED calls
         [] msg.kind = "raise" ->
              /\ DrainFails(l, fr, msg.err)
              /\ UNCHANGED calls
    /\ UNCHANGED <<cfgVars, srcPos, conVars, gath>>

SinglePipe(l) ==
    /\ IsOp(l, "spipe")
    /\ LET fr == frames[l] IN
       CASE SingleLooping(fr) ->
              /\ SingleReyieldLoop(l, fr)
              /\ UNCHANGED calls
         [] msg.kind = "end" ->
              \* `single_item_stream = as_async_generator(unwrap(final_u))`,
              \* `iter_v = self._wrap(fn(single_item_stream), name=next_name)`
              LET single_item_stream == as_async_generator(unwrap(fr.iter_u)) IN
              /\ calls' = [calls EXCEPT !.phi = @ \o single_item_stream]
              /\ YieldTail(l, fr, IF params.gKind = "stage"
                                   THEN PhiStage(single_item_stream)
                                   ELSE PhiGen(single_item_stream))
         [] msg.kind = "pull" /\ fr.pc = "tail" ->
              /\ YieldTail(l, fr, fr.tail)
              /\ UNCHANGED calls
         [] msg.kind = "raise" ->
              /\ DrainFails(l, fr, msg.err)
              /\ UNCHANGED calls
    /\ UNCHANGED <<cfgVars, srcPos, conVars, gath>>

-----------------------------------------------------------------------------
(* The consumer: `[item async for item in stream(input)]` *)

Consume ==
    /\ ctl = Top
    /\ outStatus = "running"
    /\ CASE msg.kind = "start" ->
              /\ PullBelow(Top)
              /\ UNCHANGED conVars
         [] msg.kind = "item" ->
              /\ out' = Append(out, msg.em)
              /\ PullBelow(Top)
              /\ UNCHANGED <<outStatus, outErr>>
         [] msg.kind = "end" ->
              /\ outStatus' = "done"
              /\ UNCHANGED <<ctl, msg, out, outErr, sent, status>>
         [] msg.kind = "raise" ->
              /\ outStatus' = "failed"
              /\ outErr' = msg.err
              /\ UNCHANGED <<ctl, msg, out, sent, status>>
    /\ UNCHANGED <<cfgVars, srcPos, frames, calls, gath>>

-----------------------------------------------------------------------------
(* merge: two drain tasks feed an asyncio.Queue(1) that merged() empties.   *)
(* The asyncio loop is single-threaded: the running task (cur) runs until  *)
(* it awaits something that is not ready, then the head of the ready queue *)
(* runs.  A task that awaits something outside merge (the input's own      *)
(* sleeps and I/O, the consumer's work between two pulls) is in ext until  *)
(* that completes, at any later time.                                      *)

Drains == {"a", "b"}
Tasks == Drains \cup {"main"}

\* `queue = asyncio.Queue(1)`
QueueMaxSize == 1

\* the k items of the input of drain task t, each one distinct
InputItems(t, k) == [i \in 1..k |-> t \o SubSeq("123456789", i, i)]

\* no merge is running
NoMerge ==
    /\ mIn = [t \in Drains |-> <<>>]
    /\ mFail = [t \in Drains |-> FALSE]
    /\ mErr = ""
    /\ mPos = [t \in Drains |-> 0]
    /\ pc = [t \in Tasks |-> "done"]
    /\ item = [t \in Drains |-> <<FALSE, "">>]
    /\ queue = <<>>
    /\ getters = <<>>
    /\ putters = <<>>
    /\ ready = <<>>
    /\ cur = "none"
    /\ ext = {}
    /\ run_count = 0
    /\ cancelling = FALSE
    /\ mOut = <<>>

\* no tee is running
NoTee ==
    /\ buffer = [t \in Drains |-> <<>>]
    /\ locked = FALSE
    /\ lockWaiters = <<>>
    /\ phiIn = <<>>

\* Queue._wakeup_next -> Future.set_result -> loop.call_soon(task.__wakeup)
WakeupNext(waiters, rdy) ==
    IF waiters = <<>>
    THEN [waiters |-> waiters, ready |-> rdy]
    ELSE [waiters |-> Tail(waiters), ready |-> Append(rdy, Head(waiters))]

\* the loop runs the next ready task
RunOnce ==
    /\ cur = "none"
    /\ ready # <<>>
    /\ cur' = Head(ready)
    /\ ready' = Tail(ready)
    /\ UNCHANGED <<seqVars, mIn, mFail, mErr, mPos, pc, item, queue, getters, putters, ext,
                   run_count, cancelling, mOut>>

\* what a task awaited outside merge completes
ExternalWake(t) ==
    /\ t \in ext
    /\ ext' = ext \ {t}
    /\ ready' = Append(ready, t)
    /\ UNCHANGED <<seqVars, mIn, mFail, mErr, mPos, pc, item, queue, getters, putters, cur,
                   run_count, cancelling, mOut>>

\* drain, `async for item in aiter`: the input awaits before it yields or ends
InputAwait(t) ==
    /\ cur = t
    /\ pc[t] = "next"
    /\ ext' = ext \cup {t}
    /\ cur' = "none"
    /\ UNCHANGED <<seqVars, mIn, mFail, mErr, mPos, pc, item, queue, getters, putters, ready,
                   run_count, cancelling, mOut>>

\* `finally: run_count -= 1`
DrainFinally(rc) == rc - 1

\* the exception the input of drain task t raises
InputError(t) == "err_" \o t

\* cancel_tasks: `t.cancel()` for every task.  A drain task that has not
\* finished is resumed with CancelledError wherever it is suspended: it
\* leaves the queue's putters and what it awaited, and is scheduled
Cancelled(t) == t \in Drains /\ pc[t] # "done"

CancelTasks(waiting, rdy) ==
    [pc      |-> [t \in Tasks |-> IF Cancelled(t) THEN "cancelled" ELSE pc[t]],
     putters |-> SelectSeq(waiting, LAMBDA t : ~Cancelled(t)),
     ext     |-> {t \in ext : ~Cancelled(t)},
     ready   |-> rdy \o SelectSeq(<<"a", "b">>,
                           LAMBDA t : Cancelled(t)
                                      /\ \A i \in 1..Len(rdy) : rdy[i] # t)]

\* drain, `async for item in aiter`: the input yields its next item; or it
\* raises, and the exception is to be put on the queue (`except Exception`);
\* or it ends, and the task finishes through `finally`
DrainNext(t) ==
    /\ cur = t
    /\ pc[t] = "next"
    /\ IF mPos[t] < Len(mIn[t])
       THEN /\ item' = [item EXCEPT ![t] = <<FALSE, mIn[t][mPos[t] + 1]>>]
            /\ mPos' = [mPos EXCEPT ![t] = @ + 1]
            /\ pc' = [pc EXCEPT ![t] = "put"]
            /\ UNCHANGED <<run_count, cur>>
       ELSE IF mFail[t] /\ ~cancelling
       THEN /\ item' = [item EXCEPT ![t] = <<TRUE, InputError(t)>>]
            /\ pc' = [pc EXCEPT ![t] = "puterr"]
            /\ UNCHANGED <<run_count, cur, mPos>>
       ELSE /\ run_count' = DrainFinally(run_count)
            /\ pc' = [pc EXCEPT ![t] = "done"]
            /\ cur' = "none"
            /\ UNCHANGED <<item, mPos>>
    /\ UNCHANGED <<seqVars, mIn, mFail, mErr, queue, getters, putters, ready, ext,
                   cancelling, mOut>>

\* drain, `await queue.put((False, item))` or `await queue.put((True, e))`:
\* Queue.put waits while the queue is full, then stores the entry and wakes
\* the next getter; after the put of an exception the task finishes through
\* `finally`
DrainPut(t) ==
    /\ cur = t
    /\ pc[t] \in {"put", "puterr"}
    /\ IF Len(queue) >= QueueMaxSize
       THEN /\ putters' = Append(putters, t)
            /\ cur' = "none"
            /\ UNCHANGED <<queue, getters, ready, pc, run_count>>
       ELSE LET w == WakeupNext(getters, ready) IN
            /\ queue' = Append(queue, item[t])
            /\ getters' = w.waiters
            /\ ready' = w.ready
            /\ UNCHANGED putters
            /\ IF pc[t] = "put"
               THEN /\ pc' = [pc EXCEPT ![t] = "next"]
                    /\ UNCHANGED <<cur, run_count>>
               ELSE /\ run_count' = DrainFinally(run_count)
                    /\ pc' = [pc EXCEPT ![t] = "done"]
                    /\ cur' = "none"
    /\ UNCHANGED <<seqVars, mIn, mFail, mErr, mPos, item, ext, cancelling, mOut>>

\* a cancelled drain task runs: CancelledError is not an Exception, so only
\* `finally: run_count -= 1` runs
DrainCancelled(t) ==
    /\ cur = t
    /\ pc[t] = "cancelled"
    /\ run_count' = DrainFinally(run_count)
    /\ pc' = [pc EXCEPT ![t] = "done"]
    /\ cur' = "none"
    /\ UNCHANGED <<seqVars, mIn, mFail, mErr, mPos, item, queue, getters, putters,
                   ready, ext, cancelling, mOut>>

\* `while run_count:`
MergedContinues(rc) == rc # 0

\* merged(), resumed by the consumer's pull: the loop test; when it fails the
\* generator ends through `finally: cancel_tasks()`
MergedNext ==
    /\ cur = "main"
    /\ pc["main"] = "pull"
    /\ IF MergedContinues(run_count)
       THEN /\ pc' = [pc EXCEPT !["main"] = "get"]
            /\ UNCHANGED <<cancelling, cur, putters, ready, ext>>
       ELSE LET c == CancelTasks(putters, ready) IN
            /\ cancelling' = TRUE
            /\ pc' = [c.pc EXCEPT !["main"] = "done"]
            /\ putters' = c.putters
            /\ ready' = c.ready
            /\ ext' = c.ext
            /\ cur' = "none"
    /\ UNCHANGED <<seqVars, mIn, mFail, mErr, mPos, item, queue, getters,
                   run_count, mOut>>

\* merged(), `raised, next_item = await queue.get()`: Queue.get waits while
\* the queue is empty, then takes the entry and wakes the next putter.  An
\* item goes to the consumer (`yield next_item`); an exception is raised to
\* the consumer after cancel_tasks()
MergedGet ==
    /\ cur = "main"
    /\ pc["main"] = "get"
    /\ IF queue = <<>>
       THEN /\ getters' = Append(getters, "main")
            /\ cur' = "none"
            /\ UNCHANGED <<queue, putters, ready, pc, mOut, mErr, ext, cancelling>>
       ELSE LET w == WakeupNext(putters, ready) IN
            /\ queue' = Tail(queue)
            /\ UNCHANGED getters
            /\ IF ~Head(queue)[1]
               THEN /\ putters' = w.waiters
                    /\ ready' = w.ready
                    /\ mOut' = Append(mOut, Head(queue)[2])
                    /\ pc' = [pc EXCEPT !["main"] = "pull"]
                    /\ UNCHANGED <<cur, mErr, ext, cancelling>>
               ELSE LET c == CancelTasks(w.waiters, w.ready) IN
                    \* `if raised: cancel_tasks(); raise next_item`
                    /\ cancelling' = TRUE
                    /\ mErr' = Head(queue)[2]
                    /\ pc' = [c.pc EXCEPT !["main"] = "failed"]
                    /\ putters' = c.putters
                    /\ ext' = c.ext
                    /\ ready' = c.ready
                    /\ cur' = "none"
                    /\ UNCHANGED mOut
    /\ UNCHANGED <<seqVars, mIn, mFail, mPos, item, run_count>>

\* the consumer closes merged() between two pulls: `await m.aclose()`.  A
\* generator suspended at `yield next_item` gets GeneratorExit there and runs
\* `finally: cancel_tasks()`; a generator that was never started is marked
\* closed and none of its code runs
MergedClose ==
    /\ cur = "main"
    /\ pc["main"] = "pull"
    /\ cur' = "none"
    /\ IF mOut = <<>>
       THEN /\ pc' = [pc EXCEPT !["main"] = "closed"]
            /\ UNCHANGED <<cancelling, putters, ready, ext>>
       ELSE LET c == CancelTasks(putters, ready) IN
            /\ cancelling' = TRUE
            /\ pc' = [c.pc EXCEPT !["main"] = "closed"]
            /\ putters' = c.putters
            /\ ready' = c.ready
            /\ ext' = c.ext
    /\ UNCHANGED <<seqVars, mIn, mFail, mErr, mPos, item, queue, getters,
                   run_count, mOut>>

\* the consumer awaits something else between two pulls
ConsumerAwait ==
    /\ cur = "main"
    /\ pc["main"] = "pull"
    /\ ext' = ext \cup {"main"}
    /\ cur' = "none"
    /\ UNCHANGED <<seqVars, mIn, mFail, mErr, mPos, pc, item, queue, getters, putters, ready,
                   run_count, cancelling, mOut>>

\* `tasks = [asyncio.create_task(drain(aiter)) for aiter in aiters]`, called
\* by the consumer task, which then holds merged()
InitMerge ==
    /\ \E ka, kb \in 0..MaxMerge :
          mIn = [t \in Drains |-> InputItems(t, IF t = "a" THEN ka ELSE kb)]
    /\ mFail \in [Drains -> BOOLEAN]
    /\ mErr = ""
    /\ mPos = [t \in Drains |-> 0]
    /\ pc = [t \in Tasks |-> IF t = "main" THEN "pull" ELSE "next"]
    /\ item = [t \in Drains |-> <<FALSE, "">>]
    /\ queue = <<>>
    /\ getters = <<>>
    /\ putters = <<>>
    /\ ready = <<"a", "b">>
    /\ cur = "main"
    /\ ext = {}
    /\ run_count = 2
    /\ cancelling = FALSE
    /\ mOut = <<>>
    /\ ops = <<>>
    /\ params = [gKind |-> "value", hKind |-> "value", fBad |-> ""]
    /\ srcRaw = <<>>
    /\ srcFail = "none"
    /\ srcPos = 0
    /\ frames = <<>>
    /\ ctl = 0
    /\ msg = [kind |-> "start", em |-> NoItem, err |-> ""]
    /\ out = <<>>
    /\ outStatus = "running"
    /\ outErr = ""
    /\ calls = [f |-> <<>>, p |-> <<>>, g |-> <<>>, h |-> <<>>, phi |-> <<>>]
    /\ sent = [l \in 0..0 |-> <<>>]
    /\ status = [l \in 0..0 |-> "running"]
    /\ genItems = [h \in {} |-> <<>>]
    /\ genFail = [h \in {} |-> FALSE]
    /\ gath = NoGather
    /\ NoTee

NextMerge ==
    \/ RunOnce
    \/ \E t \in Tasks : ExternalWake(t)
    \/ \E t \in Drains : InputAwait(t)
    \/ \E t \in Drains : DrainNext(t)
    \/ \E t \in Drains : DrainPut(t)
    \/ \E t \in Drains : DrainCancelled(t)
    \/ MergedNext
    \/ MergedGet
    \/ MergedClose
    \/ ConsumerAwait

MergeSpec == InitMerge /\ [][NextMerge]_vars

-----------------------------------------------------------------------------
(* Stream.pipe: merge(previous, final) over the two peers of a tee of       *)
(* self(input).  Drain task "a" runs _wrap(previous, name=next_name,       *)
(* final=False); drain task "b" runs _wrap(fn(filter_final_output(final)), *)
(* name=next_name).  A tee peer yields from its buffer; when the buffer is *)
(* empty it takes the lock, asks self(input) for the next item and appends *)
(* it to the buffer of every peer that is still running.                   *)

MaxPiped == 2

PipeName == NextName("pipe", BaseName, "value")

\* the variables no step of the pipe branches changes
pipeIdle == <<ops, params, srcRaw, srcFail, frames, ctl, msg, out, outStatus,
              outErr, calls, status, genItems, genFail, gath, mIn, mFail, mErr, mPos,
              queue, getters, putters, cancelling, mOut>>

\* Lock.release -> _wake_up_first: the first waiter is scheduled; it leaves
\* the waiters when it resumes
LockRelease(waiters, rdy) ==
    IF waiters = <<>> THEN rdy ELSE Append(rdy, Head(waiters))

\* a re-emitting branch that forgets `final=False`
PreviousWrapKeepFinal(u) == output_wrap(BaseName, u, None, Some(PipeName))

\* `previous = self._wrap(previous, name=next_name, final=False)`
PreviousWrap(u) == output_wrap(BaseName, u, Some(FALSE), Some(PipeName))

\* `self._wrap(fn(final), name=next_name)`, for the value fn yields
FinalWrap(v) == output_wrap(BaseName, Raw(v), None, Some(PipeName))

\* a tee whose peers ask self(input) for the next item without the lock
TeePeerUnlocked(t) ==
    /\ cur = t
    /\ pc[t] = "next"
    /\ IF buffer[t] # <<>>
       THEN LET u == Head(buffer[t]) IN
            /\ buffer' = [buffer EXCEPT ![t] = Tail(@)]
            /\ IF t = "a"
               THEN /\ item' = [item EXCEPT ![t] = <<FALSE, PreviousWrap(u)>>]
                    /\ pc' = [pc EXCEPT ![t] = "put"]
                    /\ UNCHANGED phiIn
               ELSE IF u.final
               THEN /\ phiIn' = Append(phiIn, u.data)
                    /\ item' = [item EXCEPT ![t] = <<FALSE, FinalWrap(Phi(u.data))>>]
                    /\ pc' = [pc EXCEPT ![t] = "put"]
               ELSE UNCHANGED <<phiIn, item, pc>>
            /\ UNCHANGED <<locked, lockWaiters, cur>>
       ELSE /\ locked' = TRUE
            /\ pc' = [pc EXCEPT ![t] = "anext"]
            /\ UNCHANGED <<lockWaiters, cur, buffer, item, phiIn>>
    /\ UNCHANGED <<pipeIdle, srcPos, sent, ready, ext, run_count>>

\* a tee peer at the top of its loop: it yields the head of its buffer to
\* its branch, or calls lock.acquire() when the buffer is empty
TeePeer(t) ==
    /\ cur = t
    /\ pc[t] = "next"
    /\ IF buffer[t] # <<>>
       THEN LET u == Head(buffer[t]) IN
            /\ buffer' = [buffer EXCEPT ![t] = Tail(@)]
            /\ IF t = "a"
               THEN /\ item' = [item EXCEPT ![t] = <<FALSE, PreviousWrap(u)>>]
                    /\ pc' = [pc EXCEPT ![t] = "put"]
                    /\ UNCHANGED phiIn
               ELSE IF u.final
               THEN \* filter_final_output yields output.data to fn
                    /\ phiIn' = Append(phiIn, u.data)
                    /\ item' = [item EXCEPT ![t] = <<FALSE, FinalWrap(Phi(u.data))>>]
                    /\ pc' = [pc EXCEPT ![t] = "put"]
               ELSE UNCHANGED <<phiIn, item, pc>>
            /\ UNCHANGED <<locked, lockWaiters, cur>>
       ELSE /\ IF ~locked /\ lockWaiters = <<>>
               THEN /\ locked' = TRUE
                    /\ pc' = [pc EXCEPT ![t] = "anext"]
                    /\ UNCHANGED <<lockWaiters, cur>>
               ELSE /\ lockWaiters' = Append(lockWaiters, t)
                    /\ pc' = [pc EXCEPT ![t] = "lock"]
                    /\ cur' = "none"
                    /\ UNCHANGED locked
            /\ UNCHANGED <<buffer, item, phiIn>>
    /\ UNCHANGED <<pipeIdle, srcPos, sent, ready, ext, run_count>>

\* a tee peer resumed inside lock.acquire(): it holds the lock; `if buffer:
\* continue` leaves the `async with` again
TeeLockAcquired(t) ==
    /\ cur = t
    /\ pc[t] = "lock"
    /\ LET rest == SelectSeq(lockWaiters, LAMBDA w : w # t) IN
       /\ lockWaiters' = rest
       /\ IF buffer[t] # <<>>
          THEN /\ locked' = FALSE
               /\ ready' = LockRelease(rest, ready)
               /\ pc' = [pc EXCEPT ![t] = "next"]
          ELSE /\ locked' = TRUE
               /\ pc' = [pc EXCEPT ![t] = "anext"]
               /\ UNCHANGED ready
    /\ UNCHANGED <<pipeIdle, srcPos, sent, buffer, item, phiIn, cur, ext, run_count>>

\* `item = await iterator.__anext__()`: self(input) awaits before it yields
\* or ends, while the peer holds the lock
SourceAwait(t) ==
    /\ cur = t
    /\ pc[t] = "anext"
    /\ ext' = ext \cup {t}
    /\ cur' = "none"
    /\ UNCHANGED <<pipeIdle, srcPos, sent, buffer, locked, lockWaiters, phiIn,
                   pc, item, ready, run_count>>

\* fn awaits something of its own before it asks for the next value
PhiAwait ==
    /\ cur = "b"
    /\ pc["b"] = "next"
    /\ ext' = ext \cup {"b"}
    /\ cur' = "none"
    /\ UNCHANGED <<pipeIdle, srcPos, sent, buffer, locked, lockWaiters, phiIn,
                   pc, item, ready, run_count>>

\* a tee whose peer keeps the lock while its consumer handles the value
PhiDelayHoldingLock ==
    /\ cur = "b"
    /\ pc["b"] = "next"
    /\ buffer["b"] # <<>>
    /\ Head(buffer["b"]).final
    /\ buffer' = [buffer EXCEPT !["b"] = Tail(@)]
    /\ phiIn' = Append(phiIn, Head(buffer["b"]).data)
    /\ item' = [item EXCEPT !["b"] = <<FALSE, FinalWrap(Phi(Head(buffer["b"]).data))>>]
    /\ pc' = [pc EXCEPT !["b"] = "put"]
    /\ ext' = ext \cup {"b"}
    /\ cur' = "none"
    /\ locked' = TRUE
    /\ UNCHANGED <<pipeIdle, srcPos, sent, lockWaiters, ready, run_count>>

\* fn has received a final value and awaits something of its own before it
\* yields: `async for value in values: await ...; yield ...`
PhiDelay ==
    /\ cur = "b"
    /\ pc["b"] = "next"
    /\ buffer["b"] # <<>>
    /\ Head(buffer["b"]).final
    /\ buffer' = [buffer EXCEPT !["b"] = Tail(@)]
    /\ phiIn' = Append(phiIn, Head(buffer["b"]).data)
    /\ item' = [item EXCEPT !["b"] = <<FALSE, FinalWrap(Phi(Head(buffer["b"]).data))>>]
    /\ pc' = [pc EXCEPT !["b"] = "put"]
    /\ ext' = ext \cup {"b"}
    /\ cur' = "none"
    /\ UNCHANGED <<pipeIdle, srcPos, sent, locked, lockWaiters, ready, run_count>>

\* `item = await iterator.__anext__()` returns: the item goes to every
\* running peer's buffer; or self(input) has ended: the peer ends, and with
\* it its branch and its drain task (`finally: run_count -= 1`)
TeeAnext(t) ==
    /\ cur = t
    /\ pc[t] = "anext"
    /\ locked' = FALSE
    /\ ready' = LockRelease(lockWaiters, ready)
    /\ IF srcPos < Len(srcRaw)
       THEN LET u == output_wrap(BaseName, srcRaw[srcPos + 1], None, None) IN
            /\ srcPos' = srcPos + 1
            /\ sent' = [sent EXCEPT ![0] = Append(@, u)]
            /\ buffer' = [p \in Drains |->
                            IF pc[p] # "done" THEN Append(buffer[p], u)
                            ELSE buffer[p]]
            /\ pc' = [pc EXCEPT ![t] = "next"]
            /\ UNCHANGED <<run_count, cur>>
       ELSE /\ run_count' = DrainFinally(run_count)
            /\ pc' = [pc EXCEPT ![t] = "done"]
            /\ cur' = "none"
            /\ UNCHANGED <<srcPos, sent, buffer>>
    /\ UNCHANGED <<pipeIdle, lockWaiters, phiIn, item, ext>>

\* what self._call yields: raw values, final under self's name, and
\* StreamOutputs of an inner Stream, which are not final
PipedItem(i, fin) ==
    LET v == "x" \o SubSeq("123456789", i, i) IN
    IF fin THEN Raw(v) ELSE StreamOutput("Inner", v, FALSE)

\* `stream(input)` of the piped Stream: tee, the two branches, and merge with
\* its two drain tasks, called by the consumer task
InitPipe ==
    /\ \E k \in 0..MaxPiped : \E fin \in [1..k -> BOOLEAN] :
          srcRaw = [i \in 1..k |-> PipedItem(i, fin[i])]
    /\ srcFail = "none"
    /\ srcPos = 0
    /\ buffer = [t \in Drains |-> <<>>]
    /\ locked = FALSE
    /\ lockWaiters = <<>>
    /\ phiIn = <<>>
    /\ mIn = [t \in Drains |-> <<>>]
    /\ mFail = [t \in Drains |-> FALSE]
    /\ mErr = ""
    /\ mPos = [t \in Drains |-> 0]
    /\ pc = [t \in Tasks |-> IF t = "main" THEN "pull" ELSE "next"]
    /\ item = [t \in Drains |-> <<FALSE, NoItem>>]
    /\ queue = <<>>
    /\ getters = <<>>
    /\ putters = <<>>
    /\ ready = <<"a", "b">>
    /\ cur = "main"
    /\ ext = {}
    /\ run_count = 2
    /\ cancelling = FALSE
    /\ mOut = <<>>
    /\ ops = <<>>
    /\ params = [gKind |-> "value", hKind |-> "value", fBad |-> ""]
    /\ frames = <<>>
    /\ ctl = 0
    /\ msg = [kind |-> "start", em |-> NoItem, err |-> ""]
    /\ out = <<>>
    /\ outStatus = "running"
    /\ outErr = ""
    /\ calls = [f |-> <<>>, p |-> <<>>, g |-> <<>>, h |-> <<>>, phi |-> <<>>]
    /\ sent = [l \in 0..0 |-> <<>>]
    /\ status = [l \in 0..0 |-> "running"]
    /\ genItems = [h \in {} |-> <<>>]
    /\ genFail = [h \in {} |-> FALSE]
    /\ gath = NoGather

NextPipe ==
    \/ RunOnce
    \/ \E t \in Tasks : ExternalWake(t)
    \/ \E t \in Drains : TeePeer(t)
    \/ \E t \in Drains : TeeLockAcquired(t)
    \/ \E t \in Drains : SourceAwait(t)
    \/ PhiAwait
    \/ PhiDelay
    \/ \E t \in Drains : TeeAnext(t)
    \/ \E t \in Drains : DrainPut(t)
    \/ MergedNext
    \/ MergedGet
    \/ ConsumerAwait

PipeSpec == InitPipe /\ [][NextPipe]_vars

-----------------------------------------------------------------------------
(* The compositions explored *)

Pipelines ==
    { <<"map">>, <<"filter">>, <<"and_then">>, <<"collect">>, <<"on_error">>,
      <<"map", "map">>, <<"on_error", "and_then">>, <<"on_error", "map">>,
      <<"on_error", "collect">>, <<"map", "collect">>, <<"join">>,
      <<"on_error", "on_error">>, <<"and_then", "map">> }

SrcItems ==
    {Raw(v) : v \in Values}
      \cup {StreamOutput("Inner", "a", FALSE), StreamOutput("Inner", "b", TRUE)}

Uses(os, op) == \E i \in 1..Len(os) : os[i] = op

Init ==
    /\ ops \in Pipelines
    /\ params \in [gKind : {"value", "gen", "stage", "raise"},
                   hKind : {"value", "gen", "raise"},
                   fBad  : {"", "b"}]
    /\ (~Uses(ops, "and_then") => params.gKind = "value")
    /\ (~Uses(ops, "on_error") => params.hKind = "value")
    /\ (~Uses(ops, "map") => params.fBad = "")
    /\ srcRaw \in BSeq(SrcItems, MaxItems)
    /\ srcFail \in {"none", "call", "stream"}
    /\ (srcFail = "call" => srcRaw = <<>>)
    /\ srcPos = 0
    /\ frames = [l \in 1..Len(ops) |->
                   NewFrame(ops[l], NameAt(ops, l - 1, params.gKind),
                            NameAt(ops, l, params.gKind))]
    /\ ctl = Len(ops) + 1
    /\ msg = [kind |-> "start", em |-> NoItem, err |-> ""]
    /\ out = <<>>
    /\ outStatus = "running"
    /\ outErr = ""
    /\ calls = [f |-> <<>>, p |-> <<>>, g |-> <<>>, h |-> <<>>, phi |-> <<>>]
    /\ sent = [l \in 0..Len(ops) |-> <<>>]
    /\ status = [l \in 0..Len(ops) |-> "running"]
    /\ genItems = [h \in {} |-> <<>>]
    /\ genFail = [h \in {} |-> FALSE]
    /\ gath = NoGather
    /\ NoMerge
    /\ NoTee

InnerItems ==
    {Raw("x"), StreamOutput("In", "y", TRUE), StreamOutput("In", "z", FALSE)}

\* the payload of the k-th item of generator h, made distinct from all others
Tag(h, items) ==
    [k \in 1..Len(items) |->
       [items[k] EXCEPT !.data = h \o "." \o items[k].data]]

InitGather ==
    /\ ops = <<"collect", "gather">>
    /\ params = [gKind |-> "value", hKind |-> "value", fBad |-> ""]
    /\ \E l \in GenLists : srcRaw = [i \in 1..Len(l) |-> Raw(l[i])]
    /\ srcFail \in {"none", "stream"}
    /\ srcPos = 0
    /\ frames = [l \in 1..Len(ops) |->
                   NewFrame(ops[l], NameAt(ops, l - 1, params.gKind),
                            NameAt(ops, l, params.gKind))]
    /\ ctl = Len(ops) + 1
    /\ msg = [kind |-> "start", em |-> NoItem, err |-> ""]
    /\ out = <<>>
    /\ outStatus = "running"
    /\ outErr = ""
    /\ calls = [f |-> <<>>, p |-> <<>>, g |-> <<>>, h |-> <<>>, phi |-> <<>>]
    /\ sent = [l \in 0..Len(ops) |-> <<>>]
    /\ status = [l \in 0..Len(ops) |-> "running"]
    /\ \E c \in [GenNames -> BSeq(InnerItems, MaxInner)] :
          /\ \A h \in GenNames :
                (\A i \in 1..Len(srcRaw) : srcRaw[i].data # h) => c[h] = <<>>
          /\ genItems = [h \in GenNames |-> Tag(h, c[h])]
    /\ genFail \in [GenNames -> BOOLEAN]
    /\ \A h \in GenNames : (\A i \in 1..Len(srcRaw) : srcRaw[i].data # h) => ~genFail[h]
    /\ gath = NoGather
    /\ NoMerge
    /\ NoTee

NextGather ==
    \/ SourceNext
    \/ Consume
    \/ \E l \in 1..Len(ops) : Collect(l)
    \/ \E l \in 1..Len(ops) : Gather(l)
    \/ \E i \in 1..Cardinality(GenNames) : ConsumeAsyncGenerator(i)

GatherSpec == InitGather /\ [][NextGather]_vars

Next ==
    \/ SourceNext
    \/ Consume
    \/ \E l \in 1..Len(ops) : Map(l)
    \/ \E l \in 1..Len(ops) : Filter(l)
    \/ \E l \in 1..Len(ops) : AndThen(l)
    \/ \E l \in 1..Len(ops) : Collect(l)
    \/ \E l \in 1..Len(ops) : OnError(l)
    \/ \E l \in 1..Len(ops) : Join(l)

Spec == Init /\ [][Next]_vars

\* compositions over a SingleOutputStream S
SinglePipelines ==
    { <<"smap">>, <<"sand_then">>, <<"spipe">>, <<"smap", "smap">>,
      <<"smap", "sand_then">>, <<"sfilter">>, <<"smap", "sfilter">>,
      <<"son_error">>, <<"son_error", "smap">>, <<"sand_then", "on_error">>,
      <<"collect", "scollect">> }

InitSingle ==
    /\ ops \in SinglePipelines
    /\ params \in [gKind : {"value", "gen", "stage", "raise", "phi"},
                   hKind : {"value", "gen", "raise"},
                   fBad  : {"", "b", NoneValue}]
    /\ (~Uses(ops, "sand_then") =>
          params.gKind \in IF Uses(ops, "spipe") THEN {"value", "stage"} ELSE {"value"})
    /\ (~Uses(ops, "smap") => params.fBad = "")
    /\ (~Uses(ops, "son_error") /\ ~Uses(ops, "on_error") => params.hKind = "value")
    /\ srcRaw \in BSeq(SrcItems, MaxItems)
    /\ srcFail \in {"none", "call", "stream"}
    /\ (srcFail = "call" => srcRaw = <<>>)
    /\ srcPos = 0
    /\ frames = [l \in 1..Len(ops) |->
                   NewFrame(ops[l], NameAt(ops, l - 1, params.gKind),
                            NameAt(ops, l, params.gKind))]
    /\ ctl = Len(ops) + 1
    /\ msg = [kind |-> "start", em |-> NoItem, err |-> ""]
    /\ out = <<>>
    /\ outStatus = "running"
    /\ outErr = ""
    /\ calls = [f |-> <<>>, p |-> <<>>, g |-> <<>>, h |-> <<>>, phi |-> <<>>]
    /\ sent = [l \in 0..Len(ops) |-> <<>>]
    /\ status = [l \in 0..Len(ops) |-> "running"]
    /\ genItems = [h \in {} |-> <<>>]
    /\ genFail = [h \in {} |-> FALSE]
    /\ gath = NoGather
    /\ NoMerge
    /\ NoTee

NextSingle ==
    \/ SourceNext
    \/ Consume
    \/ \E l \in 1..Len(ops) : SingleMap(l)
    \/ \E l \in 1..Len(ops) : SingleFilter(l)
    \/ \E l \in 1..Len(ops) : SingleAndThen(l)
    \/ \E l \in 1..Len(ops) : SinglePipe(l)
    \/ \E l \in 1..Len(ops) : SingleOnError(l)
    \/ \E l \in 1..Len(ops) : OnError(l)
    \/ \E l \in 1..Len(ops) : Collect(l)
    \/ \E l \in 1..Len(ops) : SingleCollect(l)

SingleSpec == InitSingle /\ [][NextSingle]_vars

\* every composition explored, those with gather included
\* compositions with debug
DebugPipelines ==
    { <<"debug">>, <<"map", "debug">>, <<"debug", "map">>,
      <<"on_error", "debug">>, <<"debug", "collect">>, <<"debug", "debug">> }

InitDebug ==
    /\ ops \in DebugPipelines
    /\ params \in [gKind : {"value"},
                   hKind : {"value", "gen", "raise"},
                   fBad  : {"", "b"}]
    /\ (~Uses(ops, "on_error") => params.hKind = "value")
    /\ (~Uses(ops, "map") => params.fBad = "")
    /\ srcRaw \in BSeq(SrcItems, MaxItems)
    /\ srcFail \in {"none", "call", "stream"}
    /\ (srcFail = "call" => srcRaw = <<>>)
    /\ srcPos = 0
    /\ frames = [l \in 1..Len(ops) |->
                   NewFrame(ops[l], NameAt(ops, l - 1, params.gKind),
                            NameAt(ops, l, params.gKind))]
    /\ ctl = Len(ops) + 1
    /\ msg = [kind |-> "start", em |-> NoItem, err |-> ""]
    /\ out = <<>>
    /\ outStatus = "running"
    /\ outErr = ""
    /\ calls = [f |-> <<>>, p |-> <<>>, g |-> <<>>, h |-> <<>>, phi |-> <<>>]
    /\ sent = [l \in 0..Len(ops) |-> <<>>]
    /\ status = [l \in 0..Len(ops) |-> "running"]
    /\ genItems = [h \in {} |-> <<>>]
    /\ genFail = [h \in {} |-> FALSE]
    /\ gath = NoGather
    /\ NoMerge
    /\ NoTee

NextDebug ==
    \/ SourceNext
    \/ Consume
    \/ \E l \in 1..Len(ops) : Map(l)
    \/ \E l \in 1..Len(ops) : Collect(l)
    \/ \E l \in 1..Len(ops) : OnError(l)
    \/ \E l \in 1..Len(ops) : Debug(l)

DebugSpec == InitDebug /\ [][NextDebug]_vars

-----------------------------------------------------------------------------
(* The chat adapters: chat_completion of LiteLLMChatStream and of          *)
(* OpenAIChatChain.  srcRaw holds the deltas the completion streams, the   *)
(* one frame holds pending_function_call(s), out what chat_completion has  *)
(* yielded, calls.executed the functions the OpenAI adapter has run.       *)

MaxDeltas == 3

ChatName == "C"

FunctionNames == {"f", "g"}

ArgumentPieces == {"1", "2"}

\* a streamed delta: kind "function_call" (`"function_call" in delta`),
\* "content" (`"content" in delta`), "other" (neither key) or "skip" (no
\* choices / no delta in the output)
FunctionCallDelta(name, arguments) ==
    [kind |-> "function_call", name |-> name, arguments |-> arguments, content |-> ""]

ContentDelta(c) ==
    [kind |-> "content", name |-> None, arguments |-> None, content |-> c]

OtherDelta == [kind |-> "other", name |-> None, arguments |-> None, content |-> ""]

SkippedOutput == [kind |-> "skip", name |-> None, arguments |-> None, content |-> ""]

StreamedDeltas ==
    {FunctionCallDelta(n, a) : n \in {None} \cup {Some(x) : x \in FunctionNames},
                               a \in {None} \cup {Some(x) : x \in ArgumentPieces}}
      \cup {ContentDelta("x"), OtherDelta, SkippedOutput}

\* LiteLLMChatDelta / OpenAIChatDelta
ChatDelta(role, name, content) == [role |-> role, name |-> name, content |-> content]

\* _OpenAIFunctionCall, and the function-role delta LiteLLM keeps pending
FunctionCall(name, arguments) == [name |-> name, arguments |-> arguments]

\* `function_arguments or ""`
OrEmpty(arguments) == IF arguments = None THEN "" ELSE arguments[1]

\* the `"function_call" in delta` branch: a name starts a new pending call
\* in place of whatever was pending; arguments alone extend the pending call
PendingAfter(pending, delta) ==
    IF delta.name # None
    THEN <<FunctionCall(delta.name[1], OrEmpty(delta.arguments))>>
    ELSE IF pending # <<>> /\ delta.arguments # None
    THEN [pending EXCEPT ![Len(pending)].arguments = @ \o delta.arguments[1]]
    ELSE pending

\* `yield self._output_wrap(pending_function_call)`
LiteLLMFlush(pending) ==
    [i \in 1..Len(pending) |->
       StreamOutput(ChatName, ChatDelta(Some("function"), Some(pending[i].name),
                                        pending[i].arguments), TRUE)]

\* what the function called name returns for the arguments given
FunctionResult(name, arguments) == name \o "(" \o arguments \o ")"

\* _run_pending_function_call: per pending call, the call as a non-final
\* delta and then the outputs of the function under <name>@function_call-><fn>
RECURSIVE RunPendingFunctionCall(_)
RunPendingFunctionCall(pending) ==
    IF pending = <<>> THEN <<>>
    ELSE LET function_call == Head(pending) IN
         << StreamOutput(ChatName,
                         ChatDelta(Some("function"), Some(function_call.name),
                                   function_call.arguments), FALSE),
            StreamOutput(ChatName \o "@function_call->" \o function_call.name,
                         FunctionResult(function_call.name, function_call.arguments),
                         TRUE) >>
         \o RunPendingFunctionCall(Tail(pending))

\* `yield self._output_wrap(...ChatDelta(role=role, content=delta["content"]))`
ContentOutput(delta) ==
    StreamOutput(ChatName, ChatDelta(None, None, delta.content), TRUE)

chatIdle == <<ops, params, srcRaw, srcFail, ctl, msg, outErr, sent, status,
              genItems, genFail, gath, teeVars, mergeVars>>

\* one iteration of `for output in completions`, or the code after the loop
LiteLLMChatCompletion ==
    /\ params.adapter = "LiteLLM"
    /\ outStatus = "running"
    /\ LET pending == frames[1].pending IN
       IF srcPos < Len(srcRaw)
       THEN LET delta == srcRaw[srcPos + 1] IN
            /\ srcPos' = srcPos + 1
            /\ UNCHANGED outStatus
            /\ CASE delta.kind = "skip" ->
                      UNCHANGED <<frames, out>>
                 [] delta.kind = "function_call" ->
                      /\ frames' = [frames EXCEPT ![1].pending = PendingAfter(pending, delta)]
                      /\ UNCHANGED out
                 [] delta.kind = "content" ->
                      /\ out' = Append(out, ContentOutput(delta))
                      /\ UNCHANGED frames
                 [] delta.kind = "other" ->
                      /\ out' = out \o LiteLLMFlush(pending)
                      /\ frames' = [frames EXCEPT ![1].pending = <<>>]
       ELSE /\ out' = out \o LiteLLMFlush(pending)
            /\ frames' = [frames EXCEPT ![1].pending = <<>>]
            /\ outStatus' = "done"
            /\ UNCHANGED srcPos
    /\ UNCHANGED <<chatIdle, calls>>

OpenAIChatCompletion ==
    /\ params.adapter = "OpenAI"
    /\ outStatus = "running"
    /\ LET pending == frames[1].pending
           run == /\ out' = out \o RunPendingFunctionCall(pending)
                  /\ calls' = [calls EXCEPT !.executed = @ \o pending]
                  /\ frames' = [frames EXCEPT ![1].pending = <<>>] IN
       IF srcPos < Len(srcRaw)
       THEN LET delta == srcRaw[srcPos + 1] IN
            /\ srcPos' = srcPos + 1
            /\ UNCHANGED outStatus
            /\ CASE delta.kind = "skip" ->
                      UNCHANGED <<frames, out, calls>>
                 [] delta.kind = "function_call" ->
                      /\ frames' = [frames EXCEPT ![1].pending = PendingAfter(pending, delta)]
                      /\ UNCHANGED <<out, calls>>
                 [] delta.kind = "content" ->
                      /\ out' = Append(out, ContentOutput(delta))
                      /\ UNCHANGED <<frames, calls>>
                 [] delta.kind = "other" -> run
       ELSE /\ run
            /\ outStatus' = "done"
            /\ UNCHANGED srcPos
    /\ UNCHANGED chatIdle

InitChat ==
    /\ ops = <<"chat_completion">>
    /\ params \in [adapter : {"LiteLLM", "OpenAI"}]
    /\ srcRaw \in BSeq(StreamedDeltas, MaxDeltas)
    /\ srcFail = "none"
    /\ srcPos = 0
    /\ frames = <<[op |-> "chat_completion", name |-> ChatName, pending |-> <<>>]>>
    /\ ctl = 1
    /\ msg = [kind |-> "start", em |-> NoItem, err |-> ""]
    /\ out = <<>>
    /\ outStatus = "running"
    /\ outErr = ""
    /\ calls = [executed |-> <<>>]
    /\ sent = [l \in 0..0 |-> <<>>]
    /\ status = [l \in 0..0 |-> "running"]
    /\ genItems = [h \in {} |-> <<>>]
    /\ genFail = [h \in {} |-> FALSE]
    /\ gath = NoGather
    /\ NoMerge
    /\ NoTee

NextChat ==
    \/ LiteLLMChatCompletion
    \/ OpenAIChatCompletion

ChatSpec == InitChat /\ [][NextChat]_vars

InitStream == Init \/ InitGather

NextStream ==
    \/ SourceNext
    \/ Consume
    \/ \E l \in 1..Len(ops) : Map(l)
    \/ \E l \in 1..Len(ops) : Filter(l)
    \/ \E l \in 1..Len(ops) : AndThen(l)
    \/ \E l \in 1..Len(ops) : Collect(l)
    \/ \E l \in 1..Len(ops) : Join(l)
    \/ \E l \in 1..Len(ops) : OnError(l)
    \/ \E l \in 1..Len(ops) : Gather(l)
    \/ \E i \in 1..Cardinality(GenNames) : ConsumeAsyncGenerator(i)

StreamSpec == InitStream /\ [][NextStream]_vars

\* the compositions above together with S.pipe(fn)
InitComposed == InitStream \/ InitPipe

NextComposed == NextStream \/ NextPipe

ComposedSpec == InitComposed /\ [][NextComposed]_vars

-----------------------------------------------------------------------------
(* What the combinators are expected to emit, as functions of what the     *)
(* Stream below them emitted                                               *)

IsPrefix(a, b) == Len(a) <= Len(b) /\ SubSeq(b, 1, Len(a)) = a

AsNonFinal(e) == StreamOutput(e.stream, e.data, FALSE)

NonFinal(ems) == [i \in 1..Len(ems) |-> AsNonFinal(ems[i])]

RECURSIVE Finals(_)
Finals(ems) ==
    IF ems = <<>> THEN <<>>
    ELSE (IF Head(ems).final THEN <<Head(ems).data>> ELSE <<>>) \o Finals(Tail(ems))

RECURSIVE MapImage(_, _)
MapImage(ems, name) ==
    IF ems = <<>> THEN <<>>
    ELSE <<AsNonFinal(Head(ems))>>
         \o (IF Head(ems).final
             THEN <<StreamOutput(name, F(Head(ems).data), TRUE)>> ELSE <<>>)
         \o MapImage(Tail(ems), name)

RECURSIVE FilterImage(_, _)
FilterImage(ems, name) ==
    IF ems = <<>> THEN <<>>
    ELSE <<AsNonFinal(Head(ems))>>
         \o (IF Head(ems).final /\ P(Head(ems).data)
             THEN <<StreamOutput(name, Head(ems).data, TRUE)>> ELSE <<>>)
         \o FilterImage(Tail(ems), name)

\* the outputs of a successor as they leave the composed Stream
Successor(items, name) ==
    [i \in 1..Len(items) |->
       IF items[i].isOut
       THEN StreamOutput(items[i].stream, items[i].data, items[i].final)
       ELSE StreamOutput(name, items[i].data, TRUE)]

Levels == 1..Len(ops)

StageName(l) == NameAt(ops, l, params.gKind)

-----------------------------------------------------------------------------
\* C1: S.map(f)(x) emits, for each emission e of S(x) in order, e with
\* final=false and, right after it when e was final, f(e.data) as a final
\* of S.name@map; the images are never held back behind later items.
C1_MapInterleaves ==
    \A l \in Levels : ops[l] = "map" =>
        LET img == MapImage(sent[l - 1], StageName(l - 1) \o "@map") IN
        /\ IsPrefix(sent[l], img)
        /\ (ctl > l /\ status[l] = "running" => Len(img) - Len(sent[l]) <= 1)
        /\ (status[l] = "done" => sent[l] = img)

C1_Witness ==
    /\ ops = <<"map">>
    /\ outStatus = "done"
    /\ Len(out) = 4
    /\ out[2] = StreamOutput("S@map", "f(a)", TRUE)
    /\ out[3] = StreamOutput("S", "b", FALSE)
    /\ out[4] = StreamOutput("S@map", "f(b)", TRUE)

-----------------------------------------------------------------------------
\* C2: in S.and_then(g)(x), g is invoked once, only after S(x) is drained,
\* with the list of S's final payloads in order; all of S's emissions are
\* re-emitted non-final before g's outputs, whose finality is kept (raw
\* values become final under the composed name).
C2_AndThenAfterDrain ==
    \A l \in Levels : ops[l] = "and_then" =>
        /\ Len(calls.g) <= 1
        /\ (calls.g # <<>> =>
              /\ status[l - 1] = "done"
              /\ calls.g[1] = Finals(sent[l - 1]))
        /\ (calls.g = <<>> => sent[l] = NonFinal(SubSeq(sent[l - 1], 1, Len(sent[l]))))
        /\ (status[l] = "done" =>
              /\ Len(calls.g) = 1
              /\ sent[l] = NonFinal(sent[l - 1])
                             \o Successor(G(params.gKind, Finals(sent[l - 1])),
                                          StageName(l)))

C2_Witness ==
    /\ ops = <<"and_then">>
    /\ params.gKind = "stage"
    /\ outStatus = "done"
    /\ calls.g = << <<"a", "b">> >>
    /\ Len(out) = 4
    /\ ~out[3].final
    /\ out[4].final

-----------------------------------------------------------------------------
\* C6: when S fails and h returns, S.on_error(h)(x) emits S's emissions so
\* far, then the error as a non-final emission of S, then h(err)'s outputs
\* as finals of S.name@on_error, and ends normally; S is not resumed.
C6_OnErrorRecovers ==
    \A l \in Levels :
      (ops[l] = "on_error" /\ status[l - 1] = "failed" /\ params.hKind # "raise") =>
        LET full == sent[l - 1]
                      \o <<StreamOutput(StageName(l - 1), "errS", FALSE)>>
                      \o Successor(H(params.hKind, "errS"),
                                   StageName(l - 1) \o "@on_error") IN
        /\ ctl # l - 1
        /\ IsPrefix(sent[l], full)
        /\ IsPrefix(sent[l - 1], sent[l])
        /\ status[l] # "failed"
        /\ (status[l] = "done" => sent[l] = full /\ calls.h = <<"errS">>)
        /\ (outStatus # "running" /\ l = Len(ops) => status[l] = "done")

C6_Witness ==
    /\ ops = <<"on_error">>
    /\ srcFail = "stream"
    /\ params.hKind = "gen"
    /\ outStatus = "done"
    /\ Len(out) = 4
    /\ out[1] = StreamOutput("S", "a", TRUE)
    /\ out[2] = StreamOutput("S", "errS", FALSE)

-----------------------------------------------------------------------------
\* C7: in S.on_error(h).and_then(g) or S.on_error(h).map(f), a failure of
\* g or f is never passed to h; the consumer receives it as the failure of
\* the sequence, after the emissions of the protected stage.
C7_DownstreamFailureUnhandled ==
    (Len(ops) = 2 /\ ops[1] = "on_error" /\ ops[2] # "on_error") =>
        /\ \A i \in 1..Len(calls.h) : calls.h[i] = "errS"
        /\ ((params.gKind = "raise" /\ calls.g # <<>>) \/
            (params.fBad # "" /\ calls.f # <<>> /\ calls.f[Len(calls.f)] = params.fBad)
              => /\ status[2] = "failed"
                 /\ IsPrefix(NonFinal(sent[1]), SelectSeq(sent[2], LAMBDA e : e.stream # StageName(2)))
                 /\ (params.gKind = "raise" => sent[2] = NonFinal(sent[1]))
                 /\ (outStatus # "running" =>
                       /\ outStatus = "failed"
                       /\ outErr \in {"errG", "errF"}
                       /\ out = sent[2]))

C7_Witness ==
    /\ ops = <<"on_error", "and_then">>
    /\ params.gKind = "raise"
    /\ srcFail = "none"
    /\ outStatus = "failed"
    /\ outErr = "errG"
    /\ Len(out) = 2
    /\ calls.h = <<>>

-----------------------------------------------------------------------------
\* C8: when S completes normally, S.collect()(x) re-emits every emission of
\* S non-final and then emits one final, last, under S.name@collect, whose
\* data is the list of S's final payloads in order.
C8_CollectOneFinalList ==
    \A l \in Levels : ops[l] = "collect" =>
        LET full == NonFinal(sent[l - 1])
                      \o <<StreamOutput(StageName(l - 1) \o "@collect",
                                        ListStr(Finals(sent[l - 1])), TRUE)>> IN
        /\ (status[l - 1] = "running" => sent[l] = NonFinal(SubSeq(sent[l - 1], 1, Len(sent[l]))))
        /\ (status[l - 1] = "done" => IsPrefix(sent[l], full))
        /\ (status[l] = "done" => sent[l] = full)
        /\ (status[l - 1] = "done" /\ outStatus # "running" /\ l = Len(ops)
              => status[l] = "done")

C8_Witness ==
    /\ ops = <<"collect">>
    /\ outStatus = "done"
    /\ Len(out) = 3
    /\ out[3] = StreamOutput("S@collect", "[a,b]", TRUE)

C8_WitnessEmpty ==
    /\ ops = <<"collect">>
    /\ outStatus = "done"
    /\ out = <<StreamOutput("S@collect", "[]", TRUE)>>

-----------------------------------------------------------------------------
\* C9: S.filter(p)(x) re-emits every emission of S(x) non-final (rejected
\* finals included) and, right after each final u with p(u), emits u as a
\* final of S.name@filter.
C9_FilterKeepsAccepted ==
    \A l \in Levels : ops[l] = "filter" =>
        LET img == FilterImage(sent[l - 1], StageName(l - 1) \o "@filter") IN
        /\ IsPrefix(sent[l], img)
        /\ (ctl > l /\ status[l] = "running" => Len(img) - Len(sent[l]) <= 1)
        /\ (status[l] = "done" =>
              /\ sent[l] = img
              /\ Finals(sent[l]) = SelectSeq(Finals(sent[l - 1]), P))

C9_Witness ==
    /\ ops = <<"filter">>
    /\ outStatus = "done"
    /\ out = <<StreamOutput("S", "b", FALSE), StreamOutput("S", "a", FALSE),
               StreamOutput("S@filter", "a", TRUE)>>

-----------------------------------------------------------------------------
\* the payloads an inner sequence contributes: its raw items and the data of
\* its final StreamOutputs
RECURSIVE Payloads(_)
Payloads(items) ==
    IF items = <<>> THEN <<>>
    ELSE (IF ~Head(items).isOut \/ Head(items).final
          THEN <<Head(items).data>> ELSE <<>>) \o Payloads(Tail(items))

\* C10: gather's single final is the list whose i-th element is the list of
\* payloads of the i-th inner sequence, in production order, whatever the
\* order in which the concurrently driven inner sequences complete.
C10_GatherKeepsOrder ==
    \A l \in Levels : (ops[l] = "gather" /\ status[l] = "done") =>
        LET gens == [i \in 1..Len(srcRaw) |-> srcRaw[i].data]
            expected == [i \in 1..Len(gens) |-> ListStr(Payloads(genItems[gens[i]]))] IN
        /\ Last(sent[l]) = StreamOutput(StageName(l - 1) \o "@gather",
                                        ListStr(expected), TRUE)
        /\ Len(SelectSeq(sent[l], LAMBDA e : e.final)) = 1

C10_Witness ==
    /\ ops = <<"collect", "gather">>
    /\ outStatus = "done"
    /\ gath.list = <<"g2", "g1">>
    /\ gath.order = <<2, 1>>
    /\ Last(out) = StreamOutput("S@collect@gather", "[[g2.x,g2.y],[g1.y]]", TRUE)

-----------------------------------------------------------------------------
\* nothing can run any more: no task is running, ready or awaiting anything
\* outside merge
Quiescent == cur = "none" /\ ready = <<>> /\ ext = {}

\* the emissions of S(x)
SOut == [i \in 1..Len(srcRaw) |-> output_wrap(BaseName, srcRaw[i], None, None)]

\* what the consumer of S.pipe(fn)(x) received: Stream.__call__ wraps merged()
PipeOut == [i \in 1..Len(mOut) |-> output_wrap(PipeName, mOut[i], None, None)]

Count(s, e) == Cardinality({i \in 1..Len(s) : s[i] = e})

\* C3: when S.pipe(fn)(x) has been consumed to completion, under every
\* interleaving of the two branches and every pace of the consumer, each
\* emission of S(x) is in the output exactly once, non-final, with its stage
\* and data; fn received exactly the payloads of S's finals, in order; and
\* each value fn yielded is in the output exactly once, final, under
\* S.name@pipe.
C3_PipeDelivers ==
    pc["main"] = "done" =>
        /\ \A i \in 1..Len(SOut) : Count(PipeOut, AsNonFinal(SOut[i])) = 1
        /\ phiIn = Finals(SOut)
        /\ \A j \in 1..Len(phiIn) :
              Count(PipeOut, StreamOutput(BaseName \o "@pipe", Phi(phiIn[j]), TRUE)) = 1

\* S.pipe(fn)(x) consumed to completion with nothing missing
C3_Witness ==
    /\ pc["main"] = "done"
    /\ Len(srcRaw) = 2
    /\ Len(phiIn) = 2
    /\ Len(mOut) = 4

-----------------------------------------------------------------------------
\* the items of mOut that came from the input of drain task t
FromInput(t) ==
    SelectSeq(mOut, LAMBDA x : \E i \in 1..Len(mIn[t]) : mIn[t][i] = x)

\* C4: for every scheduling of the producers and of the consumer, what
\* merge(a, b) yields is an interleaving of a and b: the items of each input
\* in their order, none duplicated, and none lost once the merged sequence
\* has ended.
C4_MergeInterleaves ==
    /\ \A t \in Drains : IsPrefix(FromInput(t), mIn[t])
    /\ Len(mOut) = Len(FromInput("a")) + Len(FromInput("b"))
    /\ (pc["main"] = "done" => \A t \in Drains : FromInput(t) = mIn[t])

\* merged() ended after the consumer received both inputs in full
C4_Witness ==
    /\ pc["main"] = "done"
    /\ Len(mIn["a"]) = 2
    /\ Len(mIn["b"]) = 1
    /\ Len(mOut) = 3

\* C5: merge terminates: once both inputs are drained and the consumer keeps
\* pulling, the merged sequence ends; the consumer is never left waiting on
\* the queue with nothing left to run.
C5_MergeTerminates ==
    ((\A t \in Drains : pc[t] = "done") /\ Quiescent)
        => pc["main"] \in {"done", "failed", "closed"}

\* both inputs are drained, nothing is left to run, and merged() has ended
C5_Witness ==
    /\ \A t \in Drains : pc[t] = "done"
    /\ Quiescent
    /\ pc["main"] = "done"
    /\ mOut # <<>>

-----------------------------------------------------------------------------
\* the combinators that drain the stream below them before they emit a final
Draining == {"and_then", "collect", "join", "gather"}

\* C11: if S fails while and_then, collect, join or gather is draining it,
\* the failure reaches the consumer after the non-final re-emissions already
\* delivered; the successor is not invoked and no final (no partial list or
\* string) is ever emitted.
C11_DrainFailurePropagates ==
    \A l \in Levels : (ops[l] \in Draining /\ status[l - 1] = "failed") =>
        /\ IsPrefix(sent[l], NonFinal(sent[l - 1]))
        /\ calls.g = <<>>
        /\ gath = NoGather
        /\ status[l] # "done"
        /\ (ctl > l => status[l] = "failed" /\ sent[l] = NonFinal(sent[l - 1]))
        /\ (l = Len(ops) /\ outStatus # "running" =>
              /\ outStatus = "failed"
              /\ outErr \in {"errS", "errF", HandlerError}
              /\ out = NonFinal(sent[l - 1]))

\* collect saw two emissions of S, then S failed and the consumer got the
\* failure
C11_Witness ==
    /\ ops = <<"collect">>
    /\ srcFail = "stream"
    /\ outStatus = "failed"
    /\ outErr = "errS"
    /\ Len(out) = 2

\* gather's upstream failed while it was drained
C11_WitnessGather ==
    /\ ops = <<"collect", "gather">>
    /\ status[1] = "failed"
    /\ outStatus = "failed"
    /\ Len(out) = 1

-----------------------------------------------------------------------------
\* the input of drain task t has raised
HasRaised(t) == item[t] = <<TRUE, InputError(t)>>

\* C12: if an input of merge(a, b) fails, then under every scheduling the
\* merged sequence fails with that exception, never ending normally, after
\* the items already enqueued, and the drain tasks are cancelled.
C12_MergeSurfacesFailure ==
    /\ (pc["main"] = "done" => \A t \in Drains : ~HasRaised(t))
    /\ (pc["main"] = "failed" =>
          /\ \E t \in Drains :
                HasRaised(t) /\ mErr = InputError(t) /\ FromInput(t) = mIn[t]
          /\ queue = <<>>
          /\ cancelling
          /\ \A t \in Drains : pc[t] \in {"done", "cancelled"})

\* merged() raised the failure of input a after a's item, and the drain
\* task of b was cancelled while it waited to put
C12_Witness ==
    /\ pc["main"] = "failed"
    /\ mErr = InputError("a")
    /\ Len(mIn["a"]) = 1
    /\ mOut = mIn["a"]
    /\ pc["b"] = "cancelled"
    /\ mPos["b"] = 1

-----------------------------------------------------------------------------
\* the first task of asyncio.gather that ended with an exception
FirstFailed(g) ==
    LET k == CHOOSE k \in 1..Len(g.order) :
                 /\ genFail[g.list[g.order[k]]]
                 /\ \A j \in 1..(k - 1) : ~genFail[g.list[g.order[j]]]
    IN g.order[k]

\* C13: when one of the inner sequences driven by gather fails, the others
\* make no further progress (they are cancelled), gather fails with the
\* first failure and emits no final.
C13_GatherFailureCancels ==
    /\ [](gath.err # "" =>
            /\ gath.err = GenError(gath.list[FirstFailed(gath)])
            /\ (outStatus = "failed" => outErr = gath.err)
            /\ outStatus # "done"
            /\ Finals(out) = <<>>)
    /\ [][gath.err # "" => gath'.vs = gath.vs /\ gath'.order = gath.order]_vars

\* gather failed with the exception of g1, raised after its two items, and
\* g2 was driven to its end after that
C13_Witness ==
    /\ outStatus = "failed"
    /\ outErr = GenError("g1")
    /\ gath.list = <<"g1", "g2">>
    /\ gath.order = <<1, 2>>
    /\ Len(gath.vs[1]) = 2
    /\ Len(gath.vs[2]) = 2

-----------------------------------------------------------------------------
\* the finals the producer of S has handed to Stream.__call__ so far
ProducedFinals ==
    Finals([k \in 1..srcPos |-> output_wrap(BaseName, srcRaw[k], None, None)])

\* C14: a SingleOutputStream emits at most one final per invocation; when its
\* producer yields a second final value the stream fails (InvariantViolation)
\* and the second final is neither emitted nor kept as the final value.
C14_SingleFinal ==
    /\ Len(Finals(sent[0])) <= 1
    /\ (Len(ProducedFinals) >= 2 => status[0] = "failed")
    /\ (Len(ops) >= 1 /\ frames[1].final_value # None
           => frames[1].final_value = Some(ProducedFinals[1]))

\* S yields the finals a and b; map re-yields both and calls fn with b
C14_Witness ==
    /\ ops = <<"smap">>
    /\ srcRaw = <<Raw("a"), Raw("b")>>
    /\ sent[0] = <<StreamOutput("S", "a", TRUE), StreamOutput("S", "b", TRUE)>>
    /\ calls.f = <<"b">>
    /\ outStatus = "done"
    /\ out = <<StreamOutput("S", "a", FALSE), StreamOutput("S", "b", FALSE),
               StreamOutput("S@map", "f(b)", TRUE)>>

-----------------------------------------------------------------------------
\* S ended without a final
EndedEmpty == status[0] = "done" /\ Finals(sent[0]) = <<>>

Contains(s, e) == \E k \in 1..Len(s) : s[k] = e

\* C15: map, and_then and pipe on a SingleOutputStream that ends without a
\* final fail with EmptyOutput; fn, next and the piped function never
\* receive an absent value.
C15_EmptyOutput ==
    /\ ~Contains(calls.f, NoneValue)
    /\ ~Contains(calls.g, NoneValue)
    /\ ~Contains(calls.phi, NoneValue)
    /\ (EndedEmpty /\ outStatus # "running"
           => outStatus = "failed" /\ outErr = "EmptyOutput")

\* S yields nothing; the piped function receives None and its output is the
\* final of S@pipe
C15_Witness ==
    /\ ops = <<"spipe">>
    /\ srcRaw = <<>>
    /\ EndedEmpty
    /\ calls.phi = <<NoneValue>>
    /\ outStatus = "done"
    /\ out = <<StreamOutput("S@pipe", Phi(NoneValue), TRUE)>>

-----------------------------------------------------------------------------
\* the consumer holds the sequence the piped Stream returned and has not
\* requested its first item yet
NotRequested == pc["main"] = "pull" /\ mOut = <<>>

\* a drain task exists as soon as it is scheduled, runs or waits
Started(t) ==
    \/ cur = t
    \/ \E i \in 1..Len(ready) : ready[i] = t
    \/ t \in ext
    \/ pc[t] # "next"

\* C16: calling a Stream does no work: before the consumer requests the first
\* item of the returned sequence no producer has run, no item was pulled and
\* no background task was started; here for a Stream built with pipe.
C16_Lazy ==
    NotRequested =>
        /\ srcPos = 0
        /\ queue = <<>>
        /\ \A t \in Drains : ~Started(t) /\ buffer[t] = <<>>

\* the consumer awaited something else before its first request; meanwhile
\* the drain tasks pulled the first item of S through the tee and queued it
C16_Witness ==
    /\ NotRequested
    /\ "main" \in ext
    /\ srcPos = 1
    /\ Len(srcRaw) = 2
    /\ queue = <<<<FALSE, PreviousWrap(srcRaw[1])>>>>

-----------------------------------------------------------------------------
\* the non-final emissions among the first n of ems
NonFinalsBefore(ems, n) == SelectSeq(SubSeq(ems, 1, n), LAMBDA e : ~e.final)

\* the inner outputs gather re-yields before its final
GatherReyields(l) ==
    Flatten([k \in 1..Len(gath.vs) |-> CleanYields(StageName(l - 1), gath.vs[k])])

\* In the generator-based combinators every final the combinator derives
\* comes after the non-final re-emission of what it derives from: for map
\* and filter the upstream final just re-emitted, for and_then, collect,
\* join and gather all of the upstream emissions (and, for gather, the
\* outputs of the inner sequences).
ReemittedBeforeFinal(l, i) ==
    LET re == NonFinalsBefore(sent[l], i - 1)
        up == sent[l - 1]
    IN CASE ops[l] \in {"map", "filter"} ->
              /\ Len(re) \in 1..Len(up)
              /\ re = NonFinal(SubSeq(up, 1, Len(re)))
              /\ up[Len(re)].final
              /\ sent[l][i].data =
                   IF ops[l] = "map" THEN F(up[Len(re)].data) ELSE up[Len(re)].data
         [] ops[l] \in {"and_then", "collect", "join"} ->
              /\ status[l - 1] = "done"
              /\ IsPrefix(NonFinal(up), re)
         [] ops[l] = "gather" ->
              /\ status[l - 1] = "done"
              /\ re = NonFinal(up) \o GatherReyields(l)
         [] OTHER -> TRUE

\* C17, for the compositions without pipe
C17_SequentialOrder ==
    \A l \in Levels : \A i \in 1..Len(sent[l]) :
        sent[l][i].final => ReemittedBeforeFinal(l, i)

\* in the output of S.pipe(fn): a final derived from a final of S comes
\* after the re-emission of that final
PipeReemittedBeforeFinal ==
    \A k \in 1..Len(SOut) : \A i \in 1..Len(mOut) :
        SOut[k].final /\ mOut[i] = FinalWrap(Phi(SOut[k].data))
            => \E j \in 1..(i - 1) : mOut[j] = PreviousWrap(SOut[k])

\* C17: in every composed Stream, pipe included, the non-final re-emission
\* of an upstream emission precedes every final that a downstream stage
\* derives from its contents.
C17_ReemissionBeforeFinal ==
    C17_SequentialOrder /\ PipeReemittedBeforeFinal

\* gather: the outputs of S, of S@collect and of the inner sequences are
\* re-emitted before the final list
C17_Witness ==
    /\ ops = <<"collect", "gather">>
    /\ outStatus = "done"
    /\ Len(GatherReyields(2)) = 2
    /\ Len(out) = Len(sent[1]) + 3
    /\ Last(out).final
    /\ NonFinalsBefore(out, Len(out) - 1) = NonFinal(sent[1]) \o GatherReyields(2)

\* pipe: the final derived from the final x2 of S is delivered before the
\* re-emission of x2
C17_WitnessPipe ==
    /\ Len(srcRaw) = 2
    /\ SOut[2].final
    /\ \E i, j \in 1..Len(mOut) :
          /\ i < j
          /\ mOut[i] = FinalWrap(Phi(SOut[2].data))
          /\ mOut[j] = PreviousWrap(SOut[2])

-----------------------------------------------------------------------------
\* what S(x) and the successor of and_then were handed by their functions,
\* paired with what left them: _wrap with no finality override
Wrapped ==
    {<<srcRaw[k], sent[0][k]>> : k \in 1..Len(sent[0])}
      \cup UNION {
            LET given == G(params.gKind, Finals(sent[l - 1]))
                n     == Len(sent[l]) - Len(sent[l - 1])
            IN {<<given[k], sent[l][Len(sent[l - 1]) + k]>> : k \in 1..n}
            : l \in {l \in Levels : ops[l] = "and_then" /\ calls.g # <<>>
                                     /\ params.gKind # "raise"} }

\* _wrap with no finality override: a StreamOutput received from a nested
\* Stream keeps its stage, its data and its final flag
C20_PassthroughKeepsFinal ==
    \A w \in Wrapped :
        w[1].isOut => w[2] = StreamOutput(w[1].stream, w[1].data, w[1].final)

\* C20: a StreamOutput received from a nested Stream and wrapped with no
\* finality override keeps its stage and data and gets final=false,
\* whatever its final flag was.
C20_PassthroughNonFinal ==
    \A w \in Wrapped :
        w[1].isOut => w[2] = StreamOutput(w[1].stream, w[1].data, FALSE)

\* the run function of S hands over a final StreamOutput of Inner: S emits
\* it final, and map treats it as a final of S
C20_Witness ==
    /\ ops = <<"map">>
    /\ srcRaw = <<StreamOutput("Inner", "b", TRUE)>>
    /\ sent[0] = <<StreamOutput("Inner", "b", TRUE)>>
    /\ outStatus = "done"
    /\ out = <<StreamOutput("Inner", "b", FALSE), StreamOutput("S@map", "f(b)", TRUE)>>

-----------------------------------------------------------------------------
\* stage and data of each emission
Prov(ems) == [i \in 1..Len(ems) |-> <<ems[i].stream, ems[i].data>>]

\* a occurs in b, in order
RECURSIVE IsSubseq(_, _)
IsSubseq(a, b) ==
    IF a = <<>> THEN TRUE
    ELSE IF b = <<>> THEN FALSE
    ELSE IF Head(a) = Head(b) THEN IsSubseq(Tail(a), Tail(b))
    ELSE IsSubseq(a, Tail(b))

\* the emissions of level l - 1 that level l has been resumed with
Received(l) ==
    SubSeq(sent[l - 1], 1,
           Len(sent[l - 1]) - (IF ctl = l /\ msg.kind = "item" THEN 1 ELSE 0))

\* the StreamOutputs among what the run function of S has yielded
NestedOfSource ==
    SelectSeq([k \in 1..Len(sent[0]) |-> srcRaw[k]], LAMBDA v : v.isOut)

\* the StreamOutputs the inner sequences of gather have yielded
NestedOfGather == SelectSeq(Flatten(gath.vs), LAMBDA v : v.isOut)

\* C18: an emission that originated in a nested Stream keeps that Stream's
\* name and its data through every enclosing combinator: what S's run
\* function hands over as StreamOutputs, what each level receives from the
\* level below, what gather's inner sequences yield and what pipe re-emits
\* are in the output with stage and data unchanged.
C18_Provenance ==
    /\ IsSubseq(Prov(NestedOfSource), Prov(sent[0]))
    /\ \A l \in Levels : IsSubseq(Prov(Received(l)), Prov(sent[l]))
    /\ \A l \in Levels :
          ops[l] = "gather" /\ status[l] = "done"
              => IsSubseq(Prov(sent[l - 1]) \o Prov(NestedOfGather), Prov(sent[l]))
    /\ IsSubseq(Prov(SelectSeq(mOut, LAMBDA e : ~e.final)), Prov(SOut))

\* the emission of Inner and the final of S, through map and collect
C18_Witness ==
    /\ ops = <<"map", "collect">>
    /\ srcRaw = <<StreamOutput("Inner", "a", FALSE), Raw("b")>>
    /\ outStatus = "done"
    /\ Prov(out) = << <<"Inner", "a">>, <<"S", "b">>, <<"S@map", "f(b)">>,
                      <<"S@map@collect", "[f(b)]">> >>

\* the emission of Inner and the final of S, re-emitted by pipe
C18_WitnessPipe ==
    /\ pc["main"] = "done"
    /\ Prov(SOut) = << <<"Inner", "x1">>, <<"S", "x2">> >>
    /\ IsSubseq(Prov(SOut), Prov(mOut))

-----------------------------------------------------------------------------
\* what pipe delivered is, apart from the finals under its own name, a
\* selection of the emissions of S made non-final
PipeReemitsNonFinal ==
    /\ IsSubseq(SelectSeq(mOut, LAMBDA e : ~e.final), NonFinal(SOut))
    /\ \A i \in 1..Len(mOut) : mOut[i].final => mOut[i].stream = PipeName

\* map, filter, and_then, pipe, collect, join and gather re-emit every
\* upstream emission with final=false; on_error hands the emissions of its
\* upstream on as they are, finals included
C19_ReemittedNonFinalButOnError ==
    /\ \A l \in Levels :
          IF ops[l] = "on_error"
          THEN IsSubseq(Received(l), sent[l])
          ELSE IsSubseq(NonFinal(Received(l)), sent[l])
    /\ PipeReemitsNonFinal

\* C19: whenever a combinator (map, filter, and_then, pipe, collect, join,
\* gather, on_error) re-emits an emission of its upstream Stream, the copy
\* carries final=false.
C19_ReemittedNonFinal ==
    /\ \A l \in Levels : IsSubseq(NonFinal(Received(l)), sent[l])
    /\ PipeReemitsNonFinal

\* on_error hands the final of S on as a final; the map above it re-emits
\* it non-final
C19_Witness ==
    /\ ops = <<"on_error", "map">>
    /\ srcRaw = <<Raw("a")>>
    /\ outStatus = "done"
    /\ sent[1] = <<StreamOutput("S", "a", TRUE)>>
    /\ out = <<StreamOutput("S", "a", FALSE),
               StreamOutput("S@on_error@map", "f(a)", TRUE)>>

-----------------------------------------------------------------------------
\* what S.pipe(fn)(x) delivers when it is the only invocation and its
\* consumer does nothing but pull: the emissions of S non-final and one
\* final per value fn yields
AloneOut ==
    NonFinal(SOut) \o [k \in 1..Len(Finals(SOut)) |-> FinalWrap(Phi(Finals(SOut)[k]))]

SameEmissions(a, b) ==
    \A e \in {a[i] : i \in 1..Len(a)} \cup {b[i] : i \in 1..Len(b)} :
        Count(a, e) = Count(b, e)

\* C21: an invocation whose consumption is interleaved with that of another
\* invocation of the same Stream (the consumer awaits the other sequence
\* between two pulls of this one) delivers what it delivers when run alone;
\* here for a Stream built with pipe, up to the order of the two branches.
C21_InterleavedAsAlone ==
    pc["main"] = "done" => SameEmissions(PipeOut, AloneOut)

\* S yields the finals x1 and x2; the invocation ended without phi(x2)
C21_Witness ==
    /\ pc["main"] = "done"
    /\ SOut = <<StreamOutput("S", "x1", TRUE), StreamOutput("S", "x2", TRUE)>>
    /\ PipeOut = <<StreamOutput("S", "x1", FALSE), StreamOutput("S", "x2", FALSE),
                   StreamOutput("S@pipe", "phi(x1)", TRUE)>>

-----------------------------------------------------------------------------
\* C22: when the consumer closes the sequence merge returned before it is
\* exhausted, both drain tasks are cancelled: none pulls its input
\* afterwards and none stays blocked on the queue.
C22_CloseCancelsDrains ==
    /\ [](pc["main"] = "closed" =>
            /\ cancelling
            /\ putters = <<>>
            /\ \A t \in Drains : pc[t] \in {"done", "cancelled"})
    /\ [][pc["main"] = "closed" => mPos' = mPos]_vars

\* closed after the first item: both drain tasks were cancelled in the
\* middle of their inputs and have finished
C22_WitnessCancelled ==
    /\ pc["main"] = "closed"
    /\ Len(mOut) = 1
    /\ cancelling
    /\ Quiescent
    /\ \A t \in Drains : pc[t] = "done" /\ mPos[t] < Len(mIn[t])

\* closed before the first pull: nothing was cancelled; the drain tasks
\* went on pulling, one item is queued and both are blocked in queue.put
C22_Witness ==
    /\ pc["main"] = "closed"
    /\ mOut = <<>>
    /\ ~cancelling
    /\ Quiescent
    /\ Len(queue) = 1
    /\ Len(putters) = 2
    /\ \A t \in Drains : pc[t] = "put" /\ mPos[t] >= 1

-----------------------------------------------------------------------------
\* fn is suspended in an await of its own and nothing else can run: the
\* consumer waits for the next item
PhiStalled ==
    /\ cur = "none"
    /\ ready = <<>>
    /\ ext = {"b"}
    /\ pc["b"] \in {"next", "put"}

\* what the consumer received from the tracing branch
Traced == SelectSeq(PipeOut, LAMBDA e : ~e.final)

\* C23: the tracing branch of S.pipe(fn) never waits for fn: while fn is
\* stalled in an await of its own, S has been drained to its end and every
\* emission of S has been delivered non-final, and the value fn is about to
\* yield has not been delivered.
C23_TracingNeverWaits ==
    PhiStalled =>
        /\ srcPos = Len(srcRaw)
        /\ pc["a"] = "done"
        /\ Traced = NonFinal(SOut)
        /\ Len(PipeOut) - Len(Traced) =
              Len(phiIn) - (IF pc["b"] = "put" THEN 1 ELSE 0)

\* fn received x1 and stalls before it yields; both re-emissions of S are
\* delivered, phi(x1) is not
C23_Witness ==
    /\ PhiStalled
    /\ pc["b"] = "put"
    /\ SOut = <<StreamOutput("S", "x1", TRUE), StreamOutput("S", "x2", TRUE)>>
    /\ phiIn = <<"x1">>
    /\ PipeOut = <<StreamOutput("S", "x1", FALSE), StreamOutput("S", "x2", FALSE)>>

-----------------------------------------------------------------------------
\* the stage below level l has emitted exactly one final
OneFinal(l) == Len(Finals(sent[l - 1])) = 1

\* C24: for a SingleOutputStream S that emits its one final, S.and_then(g)
\* invokes g at most once, only after S is drained, with the final value
\* itself (not a list holding it); S's emissions are re-emitted non-final
\* before g's outputs.
C24_SingleAndThen ==
    \A l \in Levels : ops[l] = "sand_then" =>
        /\ Len(calls.g) <= 1
        /\ (calls.g # <<>> => status[l - 1] = "done")
        /\ (calls.g = <<>> => sent[l] = NonFinal(SubSeq(sent[l - 1], 1, Len(sent[l]))))
        /\ (calls.g # <<>> /\ OneFinal(l) => calls.g = <<Finals(sent[l - 1])[1]>>)
        /\ (status[l] = "done" /\ OneFinal(l) =>
              /\ Len(calls.g) = 1
              /\ sent[l] = NonFinal(sent[l - 1])
                             \o Successor(GSingle(params.gKind, Finals(sent[l - 1])[1]),
                                          StageName(l)))

\* S yields an inner emission and its final a; g is called with a itself
C24_Witness ==
    /\ ops = <<"sand_then">>
    /\ params.gKind = "gen"
    /\ outStatus = "done"
    /\ calls.g = <<"a">>
    /\ Len(sent[0]) = 2
    /\ ~sent[0][1].final
    /\ out = <<AsNonFinal(sent[0][1]), StreamOutput("S", "a", FALSE),
               StreamOutput("S@and_then", "g1(a)", TRUE),
               StreamOutput("S@and_then", "g2(a)", TRUE)>>

-----------------------------------------------------------------------------
\* C25: S.filter(p)(x) on a SingleOutputStream S that completes re-emits S's
\* emissions non-final and then emits exactly one final, last, under
\* S.name@filter: S's value v when p(v) holds and None otherwise.
C25_SingleFilterKeepsEnvelope ==
    \A l \in Levels : ops[l] = "sfilter" =>
        /\ (status[l - 1] = "running" =>
              sent[l] = NonFinal(SubSeq(sent[l - 1], 1, Len(sent[l]))))
        /\ (status[l] = "done" =>
              /\ Len(sent[l]) = Len(sent[l - 1]) + 1
              /\ SubSeq(sent[l], 1, Len(sent[l - 1])) = NonFinal(sent[l - 1])
              /\ Last(sent[l]).final
              /\ Last(sent[l]).stream = StageName(l - 1) \o "@filter"
              /\ (OneFinal(l) =>
                    LET v == Finals(sent[l - 1])[1] IN
                    Last(sent[l]).data = IF P(v) THEN v ELSE NoneValue))
        /\ (status[l - 1] = "done" /\ outStatus # "running" /\ l = Len(ops)
              => status[l] = "done")

\* p rejects the value b: the final of S@filter holds None
C25_Witness ==
    /\ ops = <<"sfilter">>
    /\ outStatus = "done"
    /\ calls.p = <<"b">>
    /\ out = <<StreamOutput("S", "b", FALSE),
               StreamOutput("S@filter", NoneValue, TRUE)>>

\* p accepts the value a
C25_WitnessKept ==
    /\ ops = <<"sfilter">>
    /\ outStatus = "done"
    /\ out = <<StreamOutput("S", "a", FALSE),
               StreamOutput("S@filter", "a", TRUE)>>

-----------------------------------------------------------------------------
\* the value a combinator of SingleOutputStream hands over when the stage
\* below level l has ended: the last final, or None
FinalBelow(l) ==
    IF Finals(sent[l - 1]) = <<>> THEN NoneValue ELSE Last(Finals(sent[l - 1]))

\* the emissions of S.and_then(v -> fn(from_values(v))) under the name given
AndThenPhiImage(l, name) ==
    NonFinal(sent[l - 1]) \o Successor(GSingle("phi", FinalBelow(l)), name)

\* C26: on a SingleOutputStream S, S.pipe(fn) behaves as
\* S.and_then(v -> fn(from_values(v))): fn is started only after S is
\* drained, with a one-element sequence holding S's final, and both emit the
\* same sequence, up to the '@pipe' or '@and_then' suffix.
C26_SinglePipeAsAndThen ==
    \A l \in Levels :
        (\/ ops[l] = "spipe" /\ params.gKind # "stage"
         \/ ops[l] = "sand_then" /\ params.gKind = "phi") =>
            LET img == AndThenPhiImage(l, StageName(l - 1) \o "@" \o MethodName(ops[l])) IN
            /\ IsPrefix(sent[l], img)
            /\ (calls.phi = <<>> => Len(sent[l]) <= Len(sent[l - 1]))
            /\ (calls.phi # <<>> =>
                  /\ status[l - 1] = "done"
                  /\ calls.phi = <<FinalBelow(l)>>)
            /\ (status[l] = "done" => sent[l] = img)
            /\ (status[l] = "failed" => status[l - 1] = "failed")
            /\ (status[l - 1] = "failed" /\ ctl > l => status[l] = "failed")

\* S yields its final a: fn receives a and its output is the final of S@pipe
C26_Witness ==
    /\ ops = <<"spipe">>
    /\ outStatus = "done"
    /\ calls.phi = <<"a">>
    /\ out = <<StreamOutput("S", "a", FALSE), StreamOutput("S@pipe", "phi(a)", TRUE)>>

\* the same invocation through and_then
C26_WitnessAndThen ==
    /\ ops = <<"sand_then">>
    /\ params.gKind = "phi"
    /\ outStatus = "done"
    /\ calls.phi = <<"a">>
    /\ out = <<StreamOutput("S", "a", FALSE), StreamOutput("S@and_then", "phi(a)", TRUE)>>

-----------------------------------------------------------------------------
\* the stage below level l has kept to one final: it completed with exactly
\* one, or failed having emitted at most one
SingleBelow(l) ==
    \/ status[l - 1] = "done" /\ OneFinal(l)
    \/ status[l - 1] = "failed" /\ Len(Finals(sent[l - 1])) <= 1

\* C27: S.on_error(h) on a SingleOutputStream S emits exactly one final per
\* completed invocation, whether or not S fails, also when S fails after
\* it has emitted its value; what the handler returns is emitted under
\* S.name@on_error.
C27_OnErrorSingleFinal ==
    \A l \in Levels :
        (ops[l] = "son_error" /\ status[l] = "done" /\ SingleBelow(l)) =>
            /\ Len(Finals(sent[l])) = 1
            /\ \A i \in Len(sent[l - 1]) + 1..Len(sent[l]) :
                  sent[l][i].stream = StageName(l - 1) \o "@on_error"

\* S emits its value a and then fails; the handler returns one value: the
\* invocation completes with two finals
C27_Witness ==
    /\ ops = <<"son_error">>
    /\ params.hKind = "value"
    /\ srcRaw = <<Raw("a")>>
    /\ status[0] = "failed"
    /\ outStatus = "done"
    /\ out = <<StreamOutput("S", "a", TRUE),
               StreamOutput("S@on_error", "h(errS)", TRUE)>>

-----------------------------------------------------------------------------
\* C28: whenever the handler of an on_error fires, on a Stream or on a
\* SingleOutputStream, the error has been emitted before the handler's
\* first output, as a non-final emission under the name of the failed
\* stage.
C28_ErrorObservable ==
    \A l \in Levels :
        (ops[l] \in {"on_error", "son_error"} /\ calls.h # <<>>) =>
            /\ Len(sent[l]) > Len(sent[l - 1])
            /\ sent[l][Len(sent[l - 1]) + 1]
                  = StreamOutput(StageName(l - 1), calls.h[1], FALSE)

\* C28, as the code has it: the handler of Stream.on_error fires after the
\* error was emitted non-final under the name of the failed stage; the
\* handler of SingleOutputStream.on_error fires without such an emission,
\* its outputs follow S's emissions directly.
C28_ErrorObservableOnStream ==
    \A l \in Levels :
        /\ (ops[l] = "on_error" /\ calls.h # <<>> =>
              /\ Len(sent[l]) > Len(sent[l - 1])
              /\ sent[l][Len(sent[l - 1]) + 1]
                    = StreamOutput(StageName(l - 1), calls.h[1], FALSE))
        /\ (ops[l] = "son_error" /\ calls.h # <<>> =>
              IsPrefix(sent[l],
                       sent[l - 1] \o Successor(H(params.hKind, calls.h[1]),
                                                StageName(l - 1) \o "@on_error")))

\* S fails when it is called; the only emission of S.on_error(h) is the
\* handler's value
C28_Witness ==
    /\ ops = <<"son_error">>
    /\ params.hKind = "value"
    /\ srcFail = "call"
    /\ calls.h = <<"errS">>
    /\ outStatus = "done"
    /\ out = <<StreamOutput("S@on_error", "h(errS)", TRUE)>>

-----------------------------------------------------------------------------
\* the on_error at level l has caught a failure and called its handler
HandlerCalled(l) ==
    /\ ops[l] \in {"on_error", "son_error"}
    /\ frames[l].err # ""
    /\ frames[l].pc \in {"tail", "done"}

\* C29: an exception raised by the handler of S.on_error(h) is not passed
\* back to h and not recovered: after the emission that carries S's error
\* the stage fails with the handler's exception, and so does the sequence
\* the consumer reads.
C29_HandlerFailurePropagates ==
    \A l \in Levels :
        (ops[l] = "on_error" /\ params.hKind = "raise" /\ HandlerCalled(l)) =>
            /\ Len(calls.h) = Cardinality({k \in Levels : HandlerCalled(k)})
            /\ calls.h[1] # HandlerError
            /\ (l = 1 => frames[l].err = calls.h[1])
            /\ status[l] = "failed"
            /\ sent[l] = sent[l - 1]
                           \o <<StreamOutput(StageName(l - 1), frames[l].err, FALSE)>>
            /\ (outStatus # "running" =>
                  /\ outStatus = "failed"
                  /\ outErr = HandlerError
                  /\ (l = Len(ops) => out = sent[l])
                  /\ IsSubseq(NonFinal(sent[l]), NonFinal(out)))

\* S emits a and fails, the handler raises: the consumer has S's final, the
\* error emission, and the handler's exception
C29_Witness ==
    /\ ops = <<"on_error">>
    /\ params.hKind = "raise"
    /\ calls.h = <<"errS">>
    /\ outStatus = "failed"
    /\ outErr = HandlerError
    /\ out = <<StreamOutput("S", "a", TRUE), StreamOutput("S", "errS", FALSE)>>

-----------------------------------------------------------------------------
\* C30: when S(x) completes without a failure, S.on_error(h)(x) emits the
\* emissions of S(x) in their order with stage, data and final unchanged,
\* and h is never invoked.
C30_OnErrorTransparent ==
    \A l \in Levels : ops[l] = "on_error" =>
        /\ (status[l - 1] # "failed" =>
              /\ ~HandlerCalled(l)
              /\ (l = 1 => calls.h = <<>>)
              /\ IsPrefix(sent[l], sent[l - 1])
              /\ status[l] # "failed")
        /\ (status[l - 1] = "done" /\ status[l] = "done" => sent[l] = sent[l - 1])
        /\ (status[l - 1] = "done" /\ l = Len(ops) /\ outStatus # "running" =>
              /\ outStatus = "done"
              /\ out = sent[l - 1])

\* S emits a non-final emission of an inner stage and its final a
C30_Witness ==
    /\ ops = <<"on_error">>
    /\ srcFail = "none"
    /\ calls.h = <<>>
    /\ outStatus = "done"
    /\ out = <<StreamOutput("Inner", "a", FALSE), StreamOutput("S", "a", TRUE)>>
    /\ out = sent[0]

-----------------------------------------------------------------------------
\* C31: in S.on_error(h1).on_error(h2) with a handler that returns, a
\* failure of S is recovered by the inner on_error only: h1 is called once,
\* h2 is never called and catches nothing, and the sequence ends normally
\* with the error emission and h1's outputs after S's emissions.
C31_NearestHandlerRecovers ==
    (ops = <<"on_error", "on_error">> /\ params.hKind # "raise") =>
        /\ frames[2].err = ""
        /\ ~HandlerCalled(2)
        /\ Len(calls.h) <= 1
        /\ status[1] # "failed"
        /\ status[2] # "failed"
        /\ IsPrefix(sent[2], sent[1])
        /\ (status[0] = "failed" /\ outStatus # "running" =>
              /\ outStatus = "done"
              /\ HandlerCalled(1)
              /\ calls.h = <<"errS">>
              /\ out = sent[0]
                         \o <<StreamOutput("S", "errS", FALSE)>>
                         \o Successor(H(params.hKind, "errS"), "S@on_error"))

\* S emits a and fails; the consumer of the nested handlers receives what
\* the inner on_error emits, under the inner name
C31_Witness ==
    /\ ops = <<"on_error", "on_error">>
    /\ params.hKind = "value"
    /\ status[0] = "failed"
    /\ outStatus = "done"
    /\ calls.h = <<"errS">>
    /\ out = <<StreamOutput("S", "a", TRUE), StreamOutput("S", "errS", FALSE),
               StreamOutput("S@on_error", "h(errS)", TRUE)>>

-----------------------------------------------------------------------------
\* the payloads in their order with sep between consecutive ones, built up
\* from the left
RECURSIVE Concatenated(_, _)
Concatenated(payloads, sep) ==
    IF payloads = <<>> THEN ""
    ELSE IF Len(payloads) = 1 THEN payloads[1]
    ELSE Concatenated(SubSeq(payloads, 1, Len(payloads) - 1), sep)
           \o sep \o payloads[Len(payloads)]

\* C32: when S completes, S.join(sep)(x) re-emits every emission of S
\* non-final and then emits one final, last, under S.name@join, whose data
\* is the payloads of S's finals in emission order with sep between them
\* (the empty string when S has no final).
C32_JoinConcatenates ==
    \A l \in Levels : ops[l] = "join" =>
        LET full == NonFinal(sent[l - 1])
                      \o <<StreamOutput(StageName(l - 1) \o "@join",
                                        Concatenated(Finals(sent[l - 1]), Separator),
                                        TRUE)>> IN
        /\ (status[l - 1] = "running" =>
              sent[l] = NonFinal(SubSeq(sent[l - 1], 1, Len(sent[l]))))
        /\ (status[l - 1] = "done" => IsPrefix(sent[l], full))
        /\ (status[l] = "done" => sent[l] = full)
        /\ (status[l - 1] = "done" /\ outStatus # "running" /\ l = Len(ops)
              => status[l] = "done" /\ out = full)

\* S yields the finals a and b
C32_Witness ==
    /\ ops = <<"join">>
    /\ outStatus = "done"
    /\ out = <<StreamOutput("S", "a", FALSE), StreamOutput("S", "b", FALSE),
               StreamOutput("S@join", "a-b", TRUE)>>

\* S yields no final: the joined string is empty
C32_WitnessEmpty ==
    /\ ops = <<"join">>
    /\ outStatus = "done"
    /\ out = <<StreamOutput("Inner", "a", FALSE), StreamOutput("S@join", "", TRUE)>>

-----------------------------------------------------------------------------
\* C33: the finals of S.collect().collect()(x) are the finals of
\* S.collect()(x): one final whose data is the list of S's finals, not that
\* list inside another list.
C33_CollectIdempotent ==
    (ops = <<"collect", "scollect">> /\ status[2] = "done") =>
        /\ Finals(sent[1]) = <<ListStr(Finals(sent[0]))>>
        /\ Finals(sent[2]) = Finals(sent[1])
        /\ sent[2] = NonFinal(sent[1])
                       \o <<StreamOutput("S@collect@collect",
                                         ListStr(Finals(sent[0])), TRUE)>>

\* S yields the finals a and b: both collects hold [a,b]
C33_Witness ==
    /\ ops = <<"collect", "scollect">>
    /\ outStatus = "done"
    /\ Len(out) = 4
    /\ out[3] = StreamOutput("S@collect", "[a,b]", FALSE)
    /\ out[4] = StreamOutput("S@collect@collect", "[a,b]", TRUE)

-----------------------------------------------------------------------------
\* the combinators the caller applied to S, in order: S.pipe(fn) is the run
\* without levels, and S.gather() on a Stream is the run of
\* self.collect().gather()
Applied ==
    IF ops = <<>> THEN <<"pipe">>
    ELSE IF ops = <<"collect", "gather">> THEN <<"gather">>
    ELSE ops

\* the name of the Stream the caller holds
ComposedName == IF ops = <<>> THEN PipeName ELSE frames[Len(ops)].name

\* the name rule: S.name, then '@' and the combinator for each one applied;
\* an and_then given a Stream starts again from that Stream's name
RECURSIVE RuleName(_, _)
RuleName(applied, k) ==
    IF k = 0 THEN "S"
    ELSE IF applied[k] = "and_then" /\ params.gKind = "stage" THEN "G"
    ELSE RuleName(applied, k - 1) \o "@" \o applied[k]

C34_WitnessAdopted ==
    /\ ops = <<"and_then", "map">>
    /\ params.gKind = "stage"
    /\ outStatus = "done"
    /\ out # <<>>
    /\ Last(out) = StreamOutput("G@map", F("g([a])"), TRUE)

-----------------------------------------------------------------------------
\* C35: when pipe is given another Stream (a value with a name), the
\* composed Stream takes that name verbatim instead of S.name@pipe, as
\* and_then does.
C35_PipeAdoptsName ==
    \A l \in Levels :
        (ops[l] \in {"pipe", "spipe"} /\ params.gKind = "stage") =>
            frames[l].name = "G"

\* S.pipe(G) for a Stream G has run: G's final carries G's name, and the
\* composed Stream is called S@pipe all the same
C35_Witness ==
    /\ ops = <<"spipe">>
    /\ params.gKind = "stage"
    /\ outStatus = "done"
    /\ frames[1].name = "S@pipe"
    /\ out = <<StreamOutput("S", "a", FALSE), StreamOutput("G", "phi(a)", TRUE)>>

\* and_then given the same Stream does take its name
C35_WitnessAndThen ==
    /\ ops = <<"sand_then">>
    /\ params.gKind = "stage"
    /\ outStatus = "done"
    /\ frames[1].name = "G"

-----------------------------------------------------------------------------
\* the exception the Stream below level l raises when it fails
ErrBelow(l) ==
    IF l > 1 /\ ops[l - 1] = "on_error" THEN HandlerError
    ELSE IF l > 1 /\ ops[l - 1] = "map" /\ calls.f # <<>> /\ Last(calls.f) = params.fBad
    THEN "errF"
    ELSE "errS"

\* C36: debug(stage)(x) yields exactly the emissions of stage(x): the same
\* emissions in the same order, each with its stream, data and final, none
\* dropped or duplicated, and a failure of stage propagates unchanged.
C36_DebugTransparent ==
    \A l \in Levels : ops[l] = "debug" =>
        /\ IsPrefix(sent[l], sent[l - 1])
        /\ Len(sent[l - 1]) - Len(sent[l]) <= 1
        /\ (ctl > l => sent[l] = sent[l - 1])
        /\ (status[l] = "done" <=> status[l - 1] = "done" /\ ctl > l)
        /\ (status[l] = "failed" <=> status[l - 1] = "failed" /\ ctl > l)
        /\ (l = Len(ops) /\ outStatus = "failed" => outErr = ErrBelow(l))
        /\ (l = Len(ops) /\ outStatus # "running" => out = sent[l - 1])

\* S.map(f) under debug: the re-emitted items and their images all arrive,
\* and every one of them was printed
C36_Witness ==
    /\ ops = <<"map", "debug">>
    /\ outStatus = "done"
    /\ out = sent[1]
    /\ Len(out) = 4
    /\ Len(frames[2].printed) = 8

\* the same payload under a new stream name is yielded without being printed
C36_WitnessRepeated ==
    /\ ops = <<"debug">>
    /\ outStatus = "done"
    /\ out = <<StreamOutput("Inner", "a", FALSE), StreamOutput("S", "a", TRUE)>>
    /\ frames[1].printed = <<"> Inner", "a">>

\* a failing stage under debug: the items and then the same exception
C36_WitnessFailure ==
    /\ ops = <<"debug">>
    /\ outStatus = "failed"
    /\ outErr = "errS"
    /\ Len(out) = 2

-----------------------------------------------------------------------------
\* what the successor of S.on_error(h) at level l collects when S failed:
\* the finals S emitted, then what the handler returned for S's exception
RecoveredFinals(l) == Finals(sent[l - 2]) \o Payloads(H(params.hKind, "errS"))

\* C37: in S.on_error(h).and_then(g) and S.on_error(h).collect(), when S
\* fails after k >= 0 finals u1..uk, the successor receives [u1, ..., uk]
\* followed by the outputs of h(err); the exception carried by the tracing
\* emission is never among the collected finals.
C37_RecoveredFinalsCollected ==
    \A l \in Levels :
        (/\ l >= 2
         /\ ops[l - 1] = "on_error"
         /\ ops[l] \in {"and_then", "collect"}
         /\ status[l - 2] = "failed"
         /\ params.hKind # "raise") =>
            /\ (status[l - 1] = "done" =>
                  \E i \in 1..Len(sent[l - 1]) :
                     sent[l - 1][i] = StreamOutput(StageName(l - 2), "errS", FALSE))
            /\ \A i \in 1..Len(RecoveredFinals(l)) : RecoveredFinals(l)[i] \notin Exceptions
            /\ (ops[l] = "and_then" =>
                  /\ (calls.g # <<>> => status[l - 1] = "done" /\ calls.g = <<RecoveredFinals(l)>>)
                  /\ (status[l - 1] = "done" /\ ctl > l => calls.g = <<RecoveredFinals(l)>>))
            /\ (ops[l] = "collect" =>
                  /\ (status[l] = "done" =>
                        Last(sent[l]) = StreamOutput(StageName(l), ListStr(RecoveredFinals(l)), TRUE))
                  /\ (status[l - 1] = "done" /\ ctl > l => status[l] # "failed"))

\* S fails after its final a: g is called once, with [a, h(errS)]
C37_Witness ==
    /\ ops = <<"on_error", "and_then">>
    /\ params.hKind = "value"
    /\ params.gKind = "value"
    /\ srcFail = "stream"
    /\ outStatus = "done"
    /\ calls.g = << <<"a", "h(errS)">> >>
    /\ \E i \in 1..Len(out) : out[i] = StreamOutput("S", "errS", FALSE)

\* S fails at once (k = 0): collect's list holds the handler's outputs only
C37_WitnessCollect ==
    /\ ops = <<"on_error", "collect">>
    /\ params.hKind = "gen"
    /\ srcFail = "call"
    /\ outStatus = "done"
    /\ Last(out) = StreamOutput("S@on_error@collect", "[h1(errS),h2(errS)]", TRUE)

-----------------------------------------------------------------------------
\* the arguments the function given to the combinator at level l was called
\* with
FnLog(l) ==
    CASE ops[l] = "smap"      -> calls.f
      [] ops[l] = "sfilter"   -> calls.p
      [] ops[l] = "sand_then" -> calls.g
      [] ops[l] = "spipe"     -> calls.phi
      [] OTHER                -> <<>>

\* the levels that apply the same combinator as level l
SameOp(l) == {k \in Levels : ops[k] = ops[l]}

\* the calls made by level l alone: a level calls its function only after
\* the levels below it have called theirs
FnCalls(l) ==
    LET below == Cardinality({k \in SameOp(l) : k < l})
        last  == IF \E k \in SameOp(l) : k > l
                 THEN (IF Len(FnLog(l)) < below + 1 THEN Len(FnLog(l)) ELSE below + 1)
                 ELSE Len(FnLog(l)) IN
    SubSeq(FnLog(l), below + 1, last)

\* the function at level l fails by itself on the value it is given
FnRaises(l) ==
    \/ ops[l] = "smap" /\ params.fBad # "" /\ Contains(calls.f, params.fBad)
    \/ ops[l] = "sand_then" /\ params.gKind = "raise"

\* C38: when the sequence under map, filter, and_then or pipe of a
\* SingleOutputStream carries k >= 2 finals, the function is invoked exactly
\* once, only after the sequence is drained, on the data of the last final;
\* the earlier finals are only re-emitted non-final and no error is raised.
C38_LastFinalWins ==
    \A l \in Levels :
        (/\ ops[l] \in {"smap", "sfilter", "sand_then", "spipe"}
         /\ Len(Finals(sent[l - 1])) >= 2) =>
            /\ Len(FnCalls(l)) <= 1
            /\ Len(FnLog(l)) <= Cardinality(SameOp(l))
            /\ (FnCalls(l) # <<>> =>
                  /\ status[l - 1] = "done"
                  /\ FnCalls(l) = <<Last(Finals(sent[l - 1]))>>)
            /\ (status[l - 1] = "done" /\ ctl > l => Len(FnCalls(l)) = 1)
            /\ LET n == IF Len(sent[l]) < Len(sent[l - 1]) THEN Len(sent[l])
                                                           ELSE Len(sent[l - 1]) IN
               SubSeq(sent[l], 1, n) = SubSeq(NonFinal(sent[l - 1]), 1, n)
            /\ (status[l] = "failed" => status[l - 1] = "failed" \/ FnRaises(l))
            /\ (status[l - 1] = "done" /\ ctl > l /\ ~FnRaises(l) => status[l] # "failed")

\* S yields the finals a and b: and_then's next is called once, with b
C38_Witness ==
    /\ ops = <<"sand_then">>
    /\ params.gKind = "value"
    /\ sent[0] = <<StreamOutput("S", "a", TRUE), StreamOutput("S", "b", TRUE)>>
    /\ calls.g = <<"b">>
    /\ outStatus = "done"
    /\ out = <<StreamOutput("S", "a", FALSE), StreamOutput("S", "b", FALSE),
               StreamOutput("S@and_then", "g(b)", TRUE)>>

\* the same source under pipe: the piped function receives b alone
C38_WitnessPipe ==
    /\ ops = <<"spipe">>
    /\ params.gKind = "value"
    /\ sent[0] = <<StreamOutput("S", "a", TRUE), StreamOutput("S", "b", TRUE)>>
    /\ calls.phi = <<"b">>
    /\ outStatus = "done"
    /\ Last(out) = StreamOutput("S@pipe", "phi(b)", TRUE)

-----------------------------------------------------------------------------
\* the peers of the tee that are inside `await iterator.__anext__()`
Pulling == {t \in Drains : pc[t] = "anext"}

\* what self(input) has been made to yield so far
Pulled == sent[0]

\* b ends a
EndsWith(a, b) ==
    Len(b) <= Len(a) /\ SubSeq(a, Len(a) - Len(b) + 1, Len(a)) = b

\* C39: S.pipe(fn)(x) pulls each item of S(x) from the producer exactly
\* once although both branches consume it: what was pulled is the producer's
\* items in order, each branch is handed every item once, and the two
\* branches are never inside the pull at the same time; whoever pulls holds
\* the lock the two peers share.
C39_SourcePulledOnce ==
    /\ srcPos <= Len(srcRaw)
    /\ Pulled = SubSeq(SOut, 1, srcPos)
    /\ Cardinality(Pulling) <= 1
    /\ (locked <=> Pulling # {})
    /\ \A t \in Drains : EndsWith(Pulled, buffer[t])
    /\ phiIn \o Finals(buffer["b"]) = Finals(Pulled)
    /\ IsPrefix(Traced, NonFinal(Pulled))

\* the tracing branch holds the lock and pulls the second item while the fn
\* branch waits for the lock with an empty buffer
C39_Witness ==
    /\ pc["a"] = "anext"
    /\ pc["b"] = "lock"
    /\ locked
    /\ lockWaiters = <<"b">>
    /\ srcPos = 1
    /\ Len(srcRaw) = 2
    /\ buffer = [t \in Drains |-> <<>>]

\* both items were pulled once and both branches received both
C39_WitnessBoth ==
    /\ pc["main"] = "done"
    /\ srcPos = 2
    /\ Len(SOut) = 2
    /\ phiIn = Finals(SOut)
    /\ Len(phiIn) = 2
    /\ Len(Traced) = 2

-----------------------------------------------------------------------------
\* the function calls a sequence of deltas announces: one per name-bearing
\* function_call delta, its arguments those of that delta and of the
\* function_call deltas without a name that follow it
RECURSIVE Announced(_, _, _)
Announced(deltas, open, acc) ==
    IF deltas = <<>> THEN acc \o open
    ELSE LET d == Head(deltas) IN
         CASE d.kind = "function_call" /\ d.name # None ->
                Announced(Tail(deltas),
                          <<FunctionCall(d.name[1], OrEmpty(d.arguments))>>, acc \o open)
           [] d.kind = "function_call" /\ d.name = None /\ d.arguments # None
                /\ open # <<>> ->
                Announced(Tail(deltas),
                          <<FunctionCall(open[1].name, open[1].arguments \o d.arguments[1])>>,
                          acc)
           [] d.kind = "other" ->
                Announced(Tail(deltas), <<>>, acc \o open)
           [] OTHER ->
                Announced(Tail(deltas), open, acc)

\* the function calls among what chat_completion yielded
IsFunctionOutput(e) == e.stream # ChatName \/ e.data.role = Some("function")

Surfaced == SelectSeq(out, IsFunctionOutput)

\* C40: for every sequence of streamed deltas, each function call that a
\* name-bearing function_call delta announces is surfaced exactly once with
\* its concatenated arguments (LiteLLM: one final function-role delta;
\* OpenAI: the function runs once, its call delta non-final before the
\* function's outputs), and none is pending when the stream has ended.
C40_FunctionCallsSurfacedOnce ==
    outStatus = "done" =>
        LET announced == Announced(srcRaw, <<>>, <<>>) IN
        /\ frames[1].pending = <<>>
        /\ (params.adapter = "LiteLLM" => Surfaced = LiteLLMFlush(announced))
        /\ (params.adapter = "OpenAI" =>
              /\ Surfaced = RunPendingFunctionCall(announced)
              /\ calls.executed = announced)

\* two name-bearing deltas follow each other: only the call to g surfaces
C40_Witness ==
    /\ params.adapter = "LiteLLM"
    /\ srcRaw = <<FunctionCallDelta(Some("f"), Some("1")),
                  FunctionCallDelta(Some("g"), Some("2")), OtherDelta>>
    /\ outStatus = "done"
    /\ out = <<StreamOutput(ChatName, ChatDelta(Some("function"), Some("g"), "2"), TRUE)>>

\* the same deltas through the OpenAI adapter: f is never executed
C40_WitnessOpenAI ==
    /\ params.adapter = "OpenAI"
    /\ srcRaw = <<FunctionCallDelta(Some("f"), Some("1")),
                  FunctionCallDelta(Some("g"), Some("2")), OtherDelta>>
    /\ outStatus = "done"
    /\ calls.executed = <<FunctionCall("g", "2")>>

\* no name-bearing delta arrives while a call is pending
NoCallOverwritten ==
    \A i \in 1..Len(srcRaw) :
        (srcRaw[i].kind = "function_call" /\ srcRaw[i].name # None) =>
            \A j \in 1..(i - 1) :
                (srcRaw[j].kind = "function_call" /\ srcRaw[j].name # None) =>
                    \E k \in (j + 1)..(i - 1) : srcRaw[k].kind = "other"

\* with at most one call pending at a time every announced call surfaces
\* once, with its concatenated arguments
C40_SurfacedOnceWhenNotOverwritten ==
    NoCallOverwritten => C40_FunctionCallsSurfacedOnce

\* one call streamed in two pieces and flushed by the end of the stream
C40_WitnessConcatenated ==
    /\ params.adapter = "OpenAI"
    /\ srcRaw = <<FunctionCallDelta(Some("f"), Some("1")),
                  FunctionCallDelta(None, Some("2"))>>
    /\ outStatus = "done"
    /\ calls.executed = <<FunctionCall("f", "12")>>
    /\ Len(out) = 2

=============================================================================
